---- MODULE Spec2Model ----
(***************************************************************************)
(* Camera discovery engine of the Tuya plugin: the backoff calculator      *)
(* (discovery/backoff.ts), the persistent DiscoveryRegistry                *)
(* (discovery/registry.ts) and the DiscoveryController                     *)
(* (discovery/controller.ts) that debounces, queues and runs probes.       *)
(*                                                                         *)
(* Conventions.  An optional JavaScript value (a field that may be         *)
(* undefined) is the empty sequence None or the one-element sequence       *)
(* Some(v).  A Map is a function whose domain is the set of keys present.  *)
(* Time is Date.now() in model units; device ids are 1..NumDevices.        *)
(***************************************************************************)
EXTENDS Integers, Sequences, FiniteSets, Bags, TLC

VARIABLES
    records,     \* DiscoveryRegistry.records : Map<devId, DiscoveryRecord>
    storage,     \* the value of the registry's storage key
    thrown,      \* TRUE once an exception has escaped to a caller
    now,         \* Date.now()
    options,     \* DiscoveryControllerOptions given to the constructor
    timers,      \* DiscoveryController.timers : Map<devId, timer>
    pending,     \* DiscoveryController.pending : Map<devId, boolean>
    queue,       \* DiscoveryController.queue : devId[]
    inFlight,    \* DiscoveryController.inFlight
    tasks,       \* bag of runProbe promises that .finally has not yet released
    calls,       \* calls made to the collaborators during the last step
    backoffIn,   \* arguments of a getBackoffMs evaluation
    backoffOut,  \* its result
    devices,     \* TuyaPlugin.devices: the deviceIds exposed to the host
    tuyaDevices, \* TuyaPlugin.tuyaDevices : Map<devId, category>
    selected,    \* the stored selection of the discovery settings
    url,         \* NetRtspValidator.validate: its argument once it has been called
    socket,      \* the state of the socket validate connects
    listeners,   \* the events of the socket that have a listener
    timer,       \* the timeout timer of validate: the time it is due at
    buffer,      \* the response text received so far
    delivered    \* the results onResult has been called with

vars == <<records, storage, thrown, now, options, timers, pending, queue,
          inFlight, tasks, calls, backoffIn, backoffOut, devices, tuyaDevices, selected,
          url, socket, listeners, timer, buffer, delivered>>

controllerVars == <<timers, pending, queue, inFlight, tasks>>
backoffVars == <<backoffIn, backoffOut>>
pluginVars == <<devices, tuyaDevices, selected>>
validatorVars == <<url, socket, listeners, timer, buffer, delivered>>

(***************************************************************************)
(* Bounds of the model.                                                    *)
(***************************************************************************)
NumDevices == 1        \* Spec: device ids 1..NumDevices
FleetSize == 2         \* SpecFleet: device ids 1..FleetSize
FleetFailures == 1     \* SpecFleet: failed probes in a row of one record
RegistrySize == 2      \* SpecRegistry: device ids 1..RegistrySize
MaxTime == 2           \* the clock runs from 0 to MaxTime
Debounce == 1          \* SpecTimed: debounceMs of the controller
MaxFailures == 2       \* the probes of a record fail at most this many times in a row
MaxSlots == 2          \* maxConcurrent is drawn from 1..MaxSlots
BackoffBase == 1       \* backoffBaseMs of the controller
BackoffCap == 2        \* backoffMaxMs of the controller
RandDen == 2           \* Math.random() is k / RandDen
MaxFailureCount == 5   \* failureCount argument of getBackoffMs: 0..MaxFailureCount
MultiplierDen == 2     \* multiplier arguments of getBackoffMs are multiples of 1 / MultiplierDen
MaxMultiplier == 6     \* multiplier argument of getBackoffMs: 1/MultiplierDen .. MaxMultiplier/MultiplierDen
MaxBuffer == 6         \* SpecValidator: pieces of response text received by one validate call

Devices == 1..NumDevices

None == <<>>
Some(v) == <<v>>
IsSome(o) == o # None
Get(o) == o[1]
\* a ?? b
OrElse(o, d) == IF IsSome(o) THEN Get(o) ELSE d

Min(a, b) == IF a <= b THEN a ELSE b
Max(a, b) == IF a >= b THEN a ELSE b

\* Map.delete(k) and Map.set(k, v)
MapDelete(m, k) == [j \in (DOMAIN m) \ {k} |-> m[j]]
MapSet(m, k, v) == [j \in (DOMAIN m) \cup {k} |-> IF j = k THEN v ELSE m[j]]

(***************************************************************************)
(* backoff.ts                                                              *)
(***************************************************************************)
RECURSIVE Pow(_, _)
Pow(b, e) == IF e <= 0 THEN 1 ELSE b * Pow(b, e - 1)

\* Math.round of the rational num / den (den > 0): floor(x + 1/2)
Round(num, den) == (2 * num + den) \div (2 * den)

\* A multiplier argument m stands for the number m / MultiplierDen.
\* The default multiplier 2:
DefaultMultiplier == 2 * MultiplierDen

\* Capped with the exponent failureCount instead of failureCount - 1
CappedOffByOne(failureCount, baseMs, maxMs, multiplier) ==
    LET e == Max(0, failureCount)
        rawNum == baseMs * Pow(multiplier, e)
        rawDen == Pow(MultiplierDen, e)
    IN  IF rawNum <= maxMs * rawDen
        THEN [num |-> rawNum, den |-> rawDen]
        ELSE [num |-> maxMs, den |-> 1]

\* The jitter-free delay Math.min(baseMs * multiplier^(failureCount - 1), maxMs),
\* as the rational num / den
Capped(failureCount, baseMs, maxMs, multiplier) ==
    LET e == Max(0, failureCount - 1)
        rawNum == baseMs * Pow(multiplier, e)
        rawDen == Pow(MultiplierDen, e)
    IN  IF rawNum <= maxMs * rawDen
        THEN [num |-> rawNum, den |-> rawDen]
        ELSE [num |-> maxMs, den |-> 1]

\* getBackoffMs with the jitter capped * jitterRatio * (Math.random() - 0.5), not doubled
getBackoffMsHalfJitter(failureCount, baseMs, maxMs, multiplierOpt, jitterPctOpt, randNum) ==
    IF failureCount <= 0 THEN 0
    ELSE LET multiplier == OrElse(multiplierOpt, DefaultMultiplier)
             jitterPct == OrElse(jitterPctOpt, 20)
             capped == Capped(failureCount, baseMs, maxMs, multiplier)
             num == capped.num * (200 * RandDen + jitterPct * (2 * randNum - RandDen))
         IN  Max(0, Round(num, capped.den * 200 * RandDen))

\* getBackoffMs(failureCount, {baseMs, maxMs, multiplier?, jitterRatio?}) with
\* jitterRatio given in percent and Math.random() returning randNum / RandDen.
\* capped + jitter = capped * (100*RandDen + pct*(2*randNum - RandDen)) / (100*RandDen)
getBackoffMs(failureCount, baseMs, maxMs, multiplierOpt, jitterPctOpt, randNum) ==
    IF failureCount <= 0 THEN 0
    ELSE LET multiplier == OrElse(multiplierOpt, DefaultMultiplier)
             jitterPct == OrElse(jitterPctOpt, 20)
             capped == Capped(failureCount, baseMs, maxMs, multiplier)
             num == capped.num * (100 * RandDen + jitterPct * (2 * randNum - RandDen))
         IN  Max(0, Round(num, capped.den * 100 * RandDen))

(***************************************************************************)
(* types.ts                                                                *)
(***************************************************************************)
Candidate == "candidate"
Verified == "verified"
Unverified == "unverified"
DiscoveryState == {Candidate, Verified, Unverified}

\* DiscoveryDeviceIdentity
Identity(devId, name, category, productId) ==
    [devId |-> devId, name |-> name, category |-> category,
     productId |-> productId, icon |-> None]

\* FailureInfo
FailureInfo(time, statusCode, message) ==
    [time |-> time, statusCode |-> statusCode, message |-> message]

(***************************************************************************)
(* registry.ts: storage format.  JSON.stringify leaves out the properties  *)
(* whose value is undefined; JSON.parse gives back objects in which those  *)
(* properties are absent and so read as undefined.                         *)
(***************************************************************************)
StorageMissing == [kind |-> "missing"]          \* getItem returns null
StorageUnparseable == [kind |-> "unparseable"]  \* JSON.parse throws
StorageNull == [kind |-> "null"]                \* the JSON text null
StorageJson(payload) == [kind |-> "json", value |-> payload]

\* JSON text of an object whose optional properties are listed in opt
Stringify(obj, opt) ==
    [k \in {j \in DOMAIN obj : j \in opt => IsSome(obj[j])} |->
        IF k \in opt THEN Get(obj[k]) ELSE obj[k]]

\* the object read back from that text
Parse(json, all, opt) ==
    [k \in all |->
        IF k \in opt
        THEN (IF k \in DOMAIN json THEN Some(json[k]) ELSE None)
        ELSE json[k]]

IdentityFields == {"devId", "name", "category", "productId", "icon"}
IdentityOptional == {"productId", "icon"}
ProbeFields == {"lastProbeAt", "lastSuccessAt", "failureCount", "backoffUntil"}
ProbeOptional == {"lastProbeAt", "lastSuccessAt", "backoffUntil"}
FailureFields == {"time", "statusCode", "message"}
FailureOptional == {"statusCode", "message"}
RecordFields == {"devId", "identity", "state", "online", "probe", "lastFailure"}
RecordOptional == {"online", "lastFailure"}

RecordToJson(r) ==
    Stringify(
        [devId |-> r.devId,
         identity |-> Stringify(r.identity, IdentityOptional),
         state |-> r.state,
         online |-> r.online,
         probe |-> Stringify(r.probe, ProbeOptional),
         lastFailure |-> IF IsSome(r.lastFailure)
                         THEN Some(Stringify(Get(r.lastFailure), FailureOptional))
                         ELSE None],
        RecordOptional)

RecordFromJson(j) ==
    LET r == Parse(j, RecordFields, RecordOptional)
    IN  [r EXCEPT !.identity = Parse(@, IdentityFields, IdentityOptional),
                  !.probe = Parse(@, ProbeFields, ProbeOptional),
                  !.lastFailure = IF IsSome(@)
                                  THEN Some(Parse(Get(@), FailureFields, FailureOptional))
                                  ELSE None]

\* DiscoveryRegistry.persist: the text written by storage.setItem
persist(recs) == StorageJson([d \in DOMAIN recs |-> RecordToJson(recs[d])])

\* JSON.parse(raw) throws a SyntaxError
JsonParseThrows(raw) == raw.kind = "unparseable"

\* Object.entries(JSON.parse(raw) ?? {}) as a Map
JsonParseEntries(raw) ==
    IF raw.kind = "json"
    THEN [d \in DOMAIN raw.value |-> RecordFromJson(raw.value[d])]
    ELSE <<>>

\* load without the try/catch around JSON.parse
loadWithoutCatch(raw) ==
    IF raw.kind = "missing" THEN [records |-> <<>>, thrown |-> FALSE]
    ELSE [records |-> JsonParseEntries(raw), thrown |-> JsonParseThrows(raw)]

\* DiscoveryRegistry.load, called by the constructor on an empty Map:
\* [records, thrown], thrown = an exception leaves the constructor
load(raw) ==
    IF raw.kind = "missing" THEN [records |-> <<>>, thrown |-> FALSE]
    ELSE IF JsonParseThrows(raw) THEN [records |-> <<>>, thrown |-> FALSE]
    ELSE [records |-> JsonParseEntries(raw), thrown |-> FALSE]

(***************************************************************************)
(* registry.ts: operations.  reg is [records, storage]; each operation     *)
(* returns the registry after the call.                                    *)
(***************************************************************************)
Reg == [records |-> records, storage |-> storage]

\* records.set(devId, record) with the persist() call forgotten
SetWithoutPersist(reg, devId, record) ==
    [records |-> MapSet(reg.records, devId, record), storage |-> reg.storage]

\* records.set(devId, record); persist()
SetAndPersist(reg, devId, record) ==
    LET recs == MapSet(reg.records, devId, record)
    IN  [records |-> recs, storage |-> persist(recs)]

createProbeState ==
    [lastProbeAt |-> None, lastSuccessAt |-> None, failureCount |-> 0,
     backoffUntil |-> None]

\* upsertCandidate with online: online, without the fallback to existing.online
upsertCandidateOverwritesOnline(reg, identity, online) ==
    LET known == identity.devId \in DOMAIN reg.records
        existing == reg.records[identity.devId]
        record == [devId |-> identity.devId,
                   identity |-> identity,
                   state |-> IF known THEN existing.state ELSE Candidate,
                   online |-> online,
                   probe |-> IF known THEN existing.probe ELSE createProbeState,
                   lastFailure |-> IF known THEN existing.lastFailure ELSE None]
        recs == MapSet(reg.records, identity.devId, record)
    IN  [records |-> recs, storage |-> persist(recs)]

upsertCandidate(reg, identity, online) ==
    LET known == identity.devId \in DOMAIN reg.records
        existing == reg.records[identity.devId]
        record == [devId |-> identity.devId,
                   identity |-> identity,
                   state |-> IF known THEN existing.state ELSE Candidate,
                   online |-> IF IsSome(online) THEN online
                              ELSE IF known THEN existing.online ELSE None,
                   probe |-> IF known THEN existing.probe ELSE createProbeState,
                   lastFailure |-> IF known THEN existing.lastFailure ELSE None]
    IN  SetAndPersist(reg, identity.devId, record)

\* updateOnline that also forgets the backoff of the device
updateOnlineClearsBackoff(reg, devId, online) ==
    IF devId \notin DOMAIN reg.records THEN reg
    ELSE SetAndPersist(reg, devId, [reg.records[devId] EXCEPT !.online = Some(online),
                                                               !.probe.backoffUntil = None])

updateOnline(reg, devId, online) ==
    IF devId \notin DOMAIN reg.records THEN reg
    ELSE SetAndPersist(reg, devId, [reg.records[devId] EXCEPT !.online = Some(online)])

\* markVerified that leaves probe.failureCount as it is
markVerifiedKeepsFailureCount(reg, devId, successAt) ==
    IF devId \notin DOMAIN reg.records THEN reg
    ELSE [records |-> MapSet(reg.records, devId,
                             [reg.records[devId] EXCEPT !.state = Verified,
                                                        !.probe.lastSuccessAt = Some(successAt),
                                                        !.probe.backoffUntil = None,
                                                        !.lastFailure = None]),
          storage |-> persist(MapSet(reg.records, devId,
                             [reg.records[devId] EXCEPT !.state = Verified,
                                                        !.probe.lastSuccessAt = Some(successAt),
                                                        !.probe.backoffUntil = None,
                                                        !.lastFailure = None]))]

\* markVerified that keeps the failure of the last probe
markVerifiedKeepsLastFailure(reg, devId, successAt) ==
    IF devId \notin DOMAIN reg.records THEN reg
    ELSE SetAndPersist(reg, devId,
            [reg.records[devId] EXCEPT !.state = Verified,
                                       !.probe.lastSuccessAt = Some(successAt),
                                       !.probe.failureCount = 0,
                                       !.probe.backoffUntil = None])

\* markVerified that creates the record of an unknown devId
markVerifiedCreatesRecord(reg, devId, successAt) ==
    LET base == IF devId \in DOMAIN reg.records THEN reg.records[devId]
                ELSE [devId |-> devId,
                      identity |-> [devId |-> devId, name |-> "", category |-> "",
                                    productId |-> None, icon |-> None],
                      state |-> Candidate, online |-> None,
                      probe |-> [lastProbeAt |-> None, lastSuccessAt |-> None,
                                 failureCount |-> 0, backoffUntil |-> None],
                      lastFailure |-> None]
        recs == MapSet(reg.records, devId,
                       [base EXCEPT !.state = Verified,
                                    !.probe.lastSuccessAt = Some(successAt),
                                    !.probe.failureCount = 0,
                                    !.probe.backoffUntil = None,
                                    !.lastFailure = None])
    IN  [records |-> recs, storage |-> persist(recs)]

markVerified(reg, devId, successAt) ==
    IF devId \notin DOMAIN reg.records THEN reg
    ELSE SetAndPersist(reg, devId,
            [reg.records[devId] EXCEPT !.state = Verified,
                                       !.probe.lastSuccessAt = Some(successAt),
                                       !.probe.failureCount = 0,
                                       !.probe.backoffUntil = None,
                                       !.lastFailure = None])

\* markUnverified that also starts the probe state afresh
markUnverifiedResetsProbe(reg, devId) ==
    IF devId \notin DOMAIN reg.records THEN reg
    ELSE [records |-> MapSet(reg.records, devId,
                             [reg.records[devId] EXCEPT !.state = Unverified,
                                                        !.probe = createProbeState]),
          storage |-> persist(MapSet(reg.records, devId,
                             [reg.records[devId] EXCEPT !.state = Unverified,
                                                        !.probe = createProbeState]))]

markUnverified(reg, devId) ==
    IF devId \notin DOMAIN reg.records THEN reg
    ELSE SetAndPersist(reg, devId, [reg.records[devId] EXCEPT !.state = Unverified])

\* recordProbeAttempt that creates a record for an unknown devId
recordProbeAttemptCreatesRecord(reg, devId, at) ==
    LET base == IF devId \in DOMAIN reg.records THEN reg.records[devId]
                ELSE [devId |-> devId,
                      identity |-> [devId |-> devId, name |-> "", category |-> "",
                                    productId |-> None, icon |-> None],
                      state |-> Candidate, online |-> None,
                      probe |-> [lastProbeAt |-> None, lastSuccessAt |-> None,
                                 failureCount |-> 0, backoffUntil |-> None],
                      lastFailure |-> None]
        recs == MapSet(reg.records, devId, [base EXCEPT !.probe.lastProbeAt = Some(at)])
    IN  [records |-> recs, storage |-> persist(recs)]

recordProbeAttempt(reg, devId, at) ==
    IF devId \notin DOMAIN reg.records THEN reg
    ELSE SetAndPersist(reg, devId,
            [reg.records[devId] EXCEPT !.probe.lastProbeAt = Some(at)])

\* DiscoveryRegistry.recordFailure(devId, failure, backoffUntil?)
\* recordFailure that also demotes the record to Candidate
registryRecordFailureDemotes(reg, devId, failure, backoffUntil) ==
    IF devId \notin DOMAIN reg.records THEN reg
    ELSE SetAndPersist(reg, devId,
            [reg.records[devId] EXCEPT !.state = Candidate,
                                       !.lastFailure = Some(failure),
                                       !.probe.failureCount = @ + 1,
                                       !.probe.backoffUntil = backoffUntil])

registryRecordFailure(reg, devId, failure, backoffUntil) ==
    IF devId \notin DOMAIN reg.records THEN reg
    ELSE SetAndPersist(reg, devId,
            [reg.records[devId] EXCEPT !.lastFailure = Some(failure),
                                       !.probe.failureCount = @ + 1,
                                       !.probe.backoffUntil = backoffUntil])

resetToCandidate(reg, devId) ==
    IF devId \notin DOMAIN reg.records THEN reg
    ELSE SetAndPersist(reg, devId, [reg.records[devId] EXCEPT !.state = Candidate])

removeRecord(reg, devId) ==
    IF devId \notin DOMAIN reg.records THEN reg
    ELSE LET recs == MapDelete(reg.records, devId)
         IN  [records |-> recs, storage |-> persist(recs)]

(***************************************************************************)
(* controller.ts                                                           *)
(***************************************************************************)
\* built-in camera categories of isProbeEligible
DefaultCategories ==
    {"sp", "wf_sp", "wf_sub_sp", "cdsxj", "sxj4g", "dghsxj", "bjsxj", "ksdjsxj",
     "znwnsxj", "sp_wnq", "ksdjml", "dmsxj", "sp_Gsmart", "xcjly", "ipcsxj1",
     "cwsxj", "dpsxj", "ipcsxj2", "ydsxj", "mobilecam", "acc_ctrl_cam",
     "trailcam", "one_stop_solution_cam", "pettv"}

\* the characters of the category strings the model uses
Spelling ==
    [camera |-> <<"c", "a", "m", "e", "r", "a">>,
     kg |-> <<"k", "g">>,
     sp |-> <<"s", "p">>,
     ksdjml |-> <<"k", "s", "d", "j", "m", "l">>,
     IPCAM |-> <<"I", "P", "C", "A", "M">>]

\* String.prototype.toLowerCase on those characters
LowerChar(ch) ==
    CASE ch = "I" -> "i" [] ch = "P" -> "p" [] ch = "C" -> "c"
      [] ch = "A" -> "a" [] ch = "M" -> "m" [] OTHER -> ch
toLowerCase(chars) == [i \in DOMAIN chars |-> LowerChar(chars[i])]

\* String.prototype.includes
includes(chars, needle) ==
    \E i \in 0..(Len(chars) - Len(needle)) :
        SubSeq(chars, i + 1, i + Len(needle)) = needle

\* isProbeEligible that applies the category filter to Unverified records too
isProbeEligibleFiltersUnverified(record, force) ==
    IF force THEN TRUE
    ELSE IF options.probeAllCategories THEN TRUE
    ELSE LET category == record.identity.category
             lowered == toLowerCase(Spelling[category])
         IN  \/ category \in DefaultCategories \cup options.cameraCategories
             \/ includes(lowered, <<"s", "x", "j">>)
             \/ includes(lowered, <<"s", "p">>)
             \/ includes(lowered, <<"c", "a", "m">>)

\* DiscoveryController.isProbeEligible(record, force) for an existing record
isProbeEligible(record, force) ==
    IF force THEN TRUE
    ELSE IF record.state = Unverified THEN TRUE
    ELSE IF options.probeAllCategories THEN TRUE
    ELSE LET category == record.identity.category
             lowered == toLowerCase(Spelling[category])
         IN  \/ category \in DefaultCategories \cup options.cameraCategories
             \/ includes(lowered, <<"s", "x", "j">>)
             \/ includes(lowered, <<"s", "p">>)
             \/ includes(lowered, <<"c", "a", "m">>)

\* an entry of calls: a call to a collaborator (getStreamUrl, validate,
\* onVerified), or the start of runProbe(devId, force)
Call(fn, devId) == [fn |-> fn, devId |-> devId, force |-> FALSE]
RunProbeCall(devId, force) == [fn |-> "runProbe", devId |-> devId, force |-> force]

\* a runProbe promise: pc is the await it is suspended at, or "settled" once
\* it has resolved and its .finally callback is due (force is not read after
\* the first await)
Task(devId, pc) == [devId |-> devId, pc |-> pc]
OneTask(t) == SetToBag({t})

createFailure(statusCode, message) == FailureInfo(now, statusCode, message)

\* recordFailure with the backoff subtracted from the time instead of added
recordFailureBackdated(reg, devId, failure, randNum) ==
    IF devId \notin DOMAIN reg.records THEN reg
    ELSE LET failureCount == reg.records[devId].probe.failureCount + 1
             backoffMs == getBackoffMs(failureCount, options.backoffBaseMs,
                                       options.backoffMaxMs, None, None, randNum)
         IN  registryRecordFailure(reg, devId, failure, Some(now - backoffMs))

\* recordFailure with the backoff computed for the failure count before the increment
recordFailureOldCount(reg, devId, failure, randNum) ==
    IF devId \notin DOMAIN reg.records THEN reg
    ELSE LET failureCount == reg.records[devId].probe.failureCount
             backoffMs == getBackoffMs(failureCount, options.backoffBaseMs,
                                       options.backoffMaxMs, None, None, randNum)
         IN  registryRecordFailure(reg, devId, failure, Some(now + backoffMs))

\* DiscoveryController.recordFailure(devId, failure), Math.random() = randNum / RandDen
recordFailure(reg, devId, failure, randNum) ==
    IF devId \notin DOMAIN reg.records THEN reg
    ELSE LET failureCount == reg.records[devId].probe.failureCount + 1
             backoffMs == getBackoffMs(failureCount, options.backoffBaseMs,
                                       options.backoffMaxMs, None, None, randNum)
         IN  registryRecordFailure(reg, devId, failure, Some(now + backoffMs))

\* The controller and registry state that enqueueProbe, drainQueue and runProbe
\* read and write.
Ctl == [records |-> records, storage |-> storage, pending |-> pending,
        queue |-> queue, inFlight |-> inFlight, tasks |-> tasks, calls |-> <<>>]

\* runProbe without the re-check of isProbeEligible
runProbeWithoutEligibility(c, devId, force) ==
    IF \/ devId \notin DOMAIN c.records
       \/ (~force /\ c.records[devId].state = Verified)
    THEN [c EXCEPT !.calls = Append(@, RunProbeCall(devId, force)),
                   !.tasks = @ (+) OneTask(Task(devId, "settled"))]
    ELSE LET reg == recordProbeAttempt([records |-> c.records, storage |-> c.storage],
                                       devId, now)
         IN  [c EXCEPT !.records = reg.records,
                       !.storage = reg.storage,
                       !.calls = @ \o <<RunProbeCall(devId, force), Call("getStreamUrl", devId)>>,
                       !.tasks = @ (+) OneTask(Task(devId, "getStreamUrl"))]

\* runProbe without the re-check of the Verified state
runProbeIgnoresVerified(c, devId, force) ==
    IF \/ devId \notin DOMAIN c.records
       \/ ~isProbeEligible(c.records[devId], force)
    THEN [c EXCEPT !.calls = Append(@, RunProbeCall(devId, force)),
                   !.tasks = @ (+) OneTask(Task(devId, "settled"))]
    ELSE LET reg == recordProbeAttempt([records |-> c.records, storage |-> c.storage],
                                       devId, now)
         IN  [c EXCEPT !.records = reg.records,
                       !.storage = reg.storage,
                       !.calls = @ \o <<RunProbeCall(devId, force), Call("getStreamUrl", devId)>>,
                       !.tasks = @ (+) OneTask(Task(devId, "getStreamUrl"))]

\* DiscoveryController.runProbe(devId, force) up to its first await
runProbe(c, devId, force) ==
    IF \/ devId \notin DOMAIN c.records
       \/ (~force /\ c.records[devId].state = Verified)
       \/ ~isProbeEligible(c.records[devId], force)
    THEN [c EXCEPT !.calls = Append(@, RunProbeCall(devId, force)),
                   !.tasks = @ (+) OneTask(Task(devId, "settled"))]
    ELSE LET reg == recordProbeAttempt([records |-> c.records, storage |-> c.storage],
                                       devId, now)
         IN  [c EXCEPT !.records = reg.records,
                       !.storage = reg.storage,
                       !.calls = @ \o <<RunProbeCall(devId, force), Call("getStreamUrl", devId)>>,
                       !.tasks = @ (+) OneTask(Task(devId, "getStreamUrl"))]

\* the force of whichever entry is forced, shared by every dequeued device
PendingForceOfAnyDevice(c, devId) == \E d \in DOMAIN c.pending : c.pending[d]

\* pending.get(devId)
PendingForce(c, devId) == IF devId \in DOMAIN c.pending THEN c.pending[devId] ELSE FALSE

\* the loop condition with <= in place of <
HasSlotInclusive(c) == c.inFlight <= options.maxConcurrent

\* the loop condition of drainQueue
HasSlot(c) == c.inFlight < options.maxConcurrent

\* DiscoveryController.drainQueue
RECURSIVE drainQueue(_)
drainQueue(c) ==
    IF HasSlot(c) /\ Len(c.queue) > 0
    THEN LET devId == Head(c.queue)
             force == PendingForce(c, devId)
         IN  drainQueue(runProbe([c EXCEPT !.queue = Tail(@),
                                           !.pending = MapDelete(@, devId),
                                           !.inFlight = @ + 1],
                                 devId, force))
    ELSE c

\* enqueueProbe that puts a new entry at the head of the queue
enqueueProbeAtFront(c, devId, force) ==
    IF devId \in DOMAIN c.pending
    THEN (IF force THEN [c EXCEPT !.pending = MapSet(@, devId, TRUE)] ELSE c)
    ELSE drainQueue([c EXCEPT !.pending = MapSet(@, devId, force),
                              !.queue = <<devId>> \o @])

\* DiscoveryController.enqueueProbe(devId, force)
enqueueProbe(c, devId, force) ==
    IF devId \in DOMAIN c.pending
    THEN (IF force THEN [c EXCEPT !.pending = MapSet(@, devId, TRUE)] ELSE c)
    ELSE drainQueue([c EXCEPT !.pending = MapSet(@, devId, force),
                              !.queue = Append(@, devId)])

\* scheduleDelay without the backoff component
scheduleDelayIgnoresBackoff(record, immediate, force) ==
    IF immediate THEN 0 ELSE options.debounceMs

\* scheduleDelay with force zeroing the whole delay, debounce included
scheduleDelayForceSkipsDebounce(record, immediate, force) ==
    LET backoffUntil == OrElse(record.probe.backoffUntil, 0)
        delayFromBackoff == Max(0, backoffUntil - now)
    IN  IF immediate \/ force THEN 0 ELSE Max(options.debounceMs, delayFromBackoff)

\* the delay scheduleProbe gives to setTimeout
scheduleDelay(record, immediate, force) ==
    LET backoffUntil == OrElse(record.probe.backoffUntil, 0)
        delayFromBackoff == IF force THEN 0 ELSE Max(0, backoffUntil - now)
    IN  IF immediate THEN 0 ELSE Max(options.debounceMs, delayFromBackoff)

(***************************************************************************)
(* The steps of the event loop.  A step is one callback run to completion. *)
(* Promise reactions (the .finally callbacks of settled runProbe promises) *)
(* run before the next timer, I/O completion or caller.                    *)
(***************************************************************************)
NoMicrotask == \A t \in BagToSet(tasks) : t.pc # "settled"

\* inputs of the model
OnlineArgs == {None, Some(TRUE), Some(FALSE)}
BootStorage == {StorageMissing, StorageUnparseable, StorageNull}
RandNums == 0..(RandDen - 1)

\* DiscoveryControllerOptions with maxConcurrent drawn from slots
OptionSets(slots) ==
    [maxConcurrent : slots,
     debounceMs : {0},
     backoffBaseMs : {BackoffBase},
     backoffMaxMs : {BackoffCap},
     cameraCategories : {{}},
     probeAllCategories : {FALSE}]

\* validator.validate resolves with one of these RtspValidationResults
ValidatorResults ==
    {[ok |-> TRUE, statusCode |-> Some(200), error |-> None],
     [ok |-> FALSE, statusCode |-> Some(404), error |-> None],
     [ok |-> FALSE, statusCode |-> None, error |-> Some("timeout")]}

\* the environment lets the probes of one record fail n times in a row
CanFail(devId, n) ==
    devId \in DOMAIN records => records[devId].probe.failureCount < n

\* the outcomes of a validation that the environment may deliver to task t
Outcomes(t, results, n) == {r \in results : r.ok \/ CanFail(t.devId, n)}

SetRegistry(reg) ==
    /\ records' = reg.records
    /\ storage' = reg.storage

SetCtl(c) ==
    /\ records' = c.records
    /\ storage' = c.storage
    /\ pending' = c.pending
    /\ queue' = c.queue
    /\ inFlight' = c.inFlight
    /\ tasks' = c.tasks
    /\ calls' = c.calls

\* new DiscoveryRegistry(storage)
InitRegistry(boot) ==
    /\ storage \in boot
    /\ records = load(storage).records
    /\ thrown = load(storage).thrown

\* new DiscoveryController(registry, validator, getStreamUrl, options, logger)
InitController(opts) ==
    /\ options \in opts
    /\ timers = <<>>
    /\ pending = <<>>
    /\ queue = <<>>
    /\ inFlight = 0
    /\ tasks = EmptyBag
    /\ calls = <<>>

NoBackoffCall ==
    /\ backoffIn = None
    /\ backoffOut = None

\* the registry and the controller on their own, outside the plugin
NoPlugin ==
    /\ devices = {}
    /\ tuyaDevices = <<>>
    /\ selected = None

\* NetRtspValidator.validate has not been called
NoValidation ==
    /\ url = None
    /\ socket = "none"
    /\ listeners = {}
    /\ timer = None
    /\ buffer = <<>>
    /\ delivered = <<>>

\* the plugin process restarts: registry and controller are constructed again
Restart ==
    /\ records' = load(storage).records
    /\ thrown' = (thrown \/ load(storage).thrown)
    /\ timers' = <<>>
    /\ pending' = <<>>
    /\ queue' = <<>>
    /\ inFlight' = 0
    /\ tasks' = EmptyBag
    /\ calls' = <<>>
    /\ UNCHANGED <<validatorVars, pluginVars, storage, now, options, backoffVars>>

Tick ==
    /\ now < MaxTime
    /\ now' = now + 1
    /\ calls' = <<>>
    /\ UNCHANGED <<validatorVars, pluginVars, records, storage, thrown, options, controllerVars, backoffVars>>

\* a caller of the registry (the plugin's enumeration, message and settings handlers)
RegistryCall(reg) ==
    /\ NoMicrotask
    /\ SetRegistry(reg)
    /\ calls' = <<>>
    /\ UNCHANGED <<validatorVars, pluginVars, thrown, now, options, controllerVars, backoffVars>>

UpsertCandidate(identity, online) == RegistryCall(upsertCandidate(Reg, identity, online))
UpdateOnline(devId, online) == RegistryCall(updateOnline(Reg, devId, online))
ResetToCandidate(devId) == RegistryCall(resetToCandidate(Reg, devId))
RemoveRecord(devId) == RegistryCall(removeRecord(Reg, devId))

\* DiscoveryController.forceConfirm(devId)
ForceConfirm(devId) == RegistryCall(markUnverified(Reg, devId))

\* scheduleProbe that leaves an existing timer of the device in place
ScheduleProbeKeepsTimer(devId, immediate, force) ==
    /\ NoMicrotask
    /\ IF /\ devId \in DOMAIN records
          /\ (force \/ records[devId].state # Verified)
          /\ records[devId].online # Some(FALSE)
          /\ isProbeEligible(records[devId], force)
          /\ devId \notin DOMAIN timers
       THEN timers' = MapSet(timers, devId,
                             [fireAt |-> now + scheduleDelay(records[devId], immediate, force),
                              force |-> force])
       ELSE timers' = timers
    /\ calls' = <<>>
    /\ UNCHANGED <<validatorVars, pluginVars, records, storage, thrown, now, options, pending, queue, inFlight,
                   tasks, backoffVars>>

\* scheduleProbe without the check of record.online
ScheduleProbeIgnoresOnline(devId, immediate, force) ==
    /\ NoMicrotask
    /\ IF /\ devId \in DOMAIN records
          /\ (force \/ records[devId].state # Verified)
          /\ isProbeEligible(records[devId], force)
       THEN timers' = MapSet(timers, devId,
                             [fireAt |-> now + scheduleDelay(records[devId], immediate, force),
                              force |-> force])
       ELSE timers' = timers
    /\ calls' = <<>>
    /\ UNCHANGED <<validatorVars, pluginVars, records, storage, thrown, now, options, pending, queue, inFlight,
                   tasks, backoffVars>>

\* DiscoveryController.scheduleProbe(devId, {immediate, force})
ScheduleProbe(devId, immediate, force) ==
    /\ NoMicrotask
    /\ IF /\ devId \in DOMAIN records
          /\ (force \/ records[devId].state # Verified)
          /\ records[devId].online # Some(FALSE)
          /\ isProbeEligible(records[devId], force)
       THEN timers' = MapSet(timers, devId,
                             [fireAt |-> now + scheduleDelay(records[devId], immediate, force),
                              force |-> force])
       ELSE timers' = timers
    /\ calls' = <<>>
    /\ UNCHANGED <<validatorVars, pluginVars, records, storage, thrown, now, options, pending, queue, inFlight,
                   tasks, backoffVars>>

\* the setTimeout callback of scheduleProbe
TimerFire(devId) ==
    /\ NoMicrotask
    /\ devId \in DOMAIN timers
    /\ now >= timers[devId].fireAt
    /\ timers' = MapDelete(timers, devId)
    /\ SetCtl(enqueueProbe(Ctl, devId, timers[devId].force))
    /\ UNCHANGED <<validatorVars, pluginVars, thrown, now, options, backoffVars>>

\* runProbe moves from t.pc to pc with the registry reg and the calls made
Resume(t, pc, reg, made) ==
    /\ tasks' = (tasks (-) OneTask(t)) (+) OneTask([t EXCEPT !.pc = pc])
    /\ SetRegistry(reg)
    /\ calls' = made
    /\ UNCHANGED <<validatorVars, pluginVars, thrown, now, options, timers, pending, queue, inFlight, backoffVars>>

\* await this.getStreamUrl(devId) resolves: validator.validate(url) is called
GetStreamUrlResolved(t) ==
    /\ NoMicrotask
    /\ t.pc = "getStreamUrl"
    /\ Resume(t, "validate", Reg, <<Call("validate", t.devId)>>)

\* await this.getStreamUrl(devId) rejects outside any try block: the runProbe
\* promise rejects, nothing is recorded, and nobody handles the rejection
GetStreamUrlRejectedUncaught(t, randNum) ==
    /\ NoMicrotask
    /\ t.pc = "getStreamUrl"
    /\ tasks' = (tasks (-) OneTask(t)) (+) OneTask([t EXCEPT !.pc = "settled"])
    /\ thrown' = TRUE
    /\ calls' = <<>>
    /\ UNCHANGED <<validatorVars, pluginVars, records, storage, now, options, timers, pending, queue, inFlight,
                   backoffVars>>

\* await this.getStreamUrl(devId) rejects: the catch block
GetStreamUrlRejected(t, randNum) ==
    /\ NoMicrotask
    /\ t.pc = "getStreamUrl"
    /\ Resume(t, "settled",
              recordFailure(Reg, t.devId,
                            createFailure(None, Some("Not authenticated with Tuya.")),
                            randNum),
              <<>>)

\* validate resolves with result, and a failure arms a timer for a retry of
\* the device at the end of its backoff
ValidateResolvedReschedules(t, result, randNum) ==
    /\ NoMicrotask
    /\ t.pc = "validate"
    /\ tasks' = (tasks (-) OneTask(t)) (+) OneTask([t EXCEPT !.pc = "settled"])
    /\ IF result.ok
       THEN /\ SetRegistry(markVerified(Reg, t.devId, now))
            /\ calls' = <<Call("onVerified", t.devId)>>
            /\ timers' = timers
       ELSE /\ SetRegistry(recordFailure(Reg, t.devId,
                                         createFailure(result.statusCode,
                                                       Some(OrElse(result.error, "validation-failed"))),
                                         randNum))
            /\ calls' = <<>>
            /\ timers' = IF t.devId \in DOMAIN records'
                         THEN MapSet(timers, t.devId,
                                     [fireAt |-> OrElse(records'[t.devId].probe.backoffUntil, now),
                                      force |-> FALSE])
                         ELSE timers
    /\ UNCHANGED <<validatorVars, pluginVars, thrown, now, options, pending, queue, inFlight, backoffVars>>

\* await this.validator.validate(url) resolves with result
ValidateResolved(t, result, randNum) ==
    /\ NoMicrotask
    /\ t.pc = "validate"
    /\ IF result.ok
       THEN Resume(t, "settled", markVerified(Reg, t.devId, now),
                   <<Call("onVerified", t.devId)>>)
       ELSE Resume(t, "settled",
                   recordFailure(Reg, t.devId,
                                 createFailure(result.statusCode,
                                               Some(OrElse(result.error, "validation-failed"))),
                                 randNum),
                   <<>>)

\* await this.validator.validate(url) rejects with a value that is no Error
ValidateRejected(t, randNum) ==
    /\ NoMicrotask
    /\ t.pc = "validate"
    /\ Resume(t, "settled",
              recordFailure(Reg, t.devId, createFailure(None, Some("validation-error")),
                            randNum),
              <<>>)

\* a .finally callback that releases the slot and leaves the queue alone
FinallyWithoutDrain(t) ==
    /\ t.pc = "settled"
    /\ SetCtl([Ctl EXCEPT !.tasks = @ (-) OneTask(t), !.inFlight = @ - 1, !.calls = <<>>])
    /\ UNCHANGED <<validatorVars, pluginVars, thrown, now, options, timers, backoffVars>>

\* a .finally callback that drains the queue and keeps the slot
FinallyKeepsSlot(t) ==
    /\ t.pc = "settled"
    /\ SetCtl(drainQueue([Ctl EXCEPT !.tasks = @ (-) OneTask(t)]))
    /\ UNCHANGED <<validatorVars, pluginVars, thrown, now, options, timers, backoffVars>>

\* the .finally callback of a settled runProbe promise
Finally(t) ==
    /\ t.pc = "settled"
    /\ SetCtl(drainQueue([Ctl EXCEPT !.tasks = @ (-) OneTask(t), !.inFlight = @ - 1]))
    /\ UNCHANGED <<validatorVars, pluginVars, thrown, now, options, timers, backoffVars>>

(***************************************************************************)
(* Spec: the whole life of the records of Devices, from enumeration to     *)
(* removal, with every caller and every probe outcome.                     *)
(***************************************************************************)
Identities == {Identity(d, "Camera", cat, Some("prod")) : d \in Devices, cat \in {"camera", "kg"}}

Init ==
    /\ InitRegistry(BootStorage)
    /\ InitController(OptionSets(1..MaxSlots))
    /\ NoPlugin
    /\ NoValidation
    /\ now = 0
    /\ NoBackoffCall

Next ==
    \/ Restart
    \/ \E identity \in Identities, online \in OnlineArgs : UpsertCandidate(identity, online)
    \/ \E d \in Devices, online \in BOOLEAN : UpdateOnline(d, online)
    \/ \E d \in Devices : ResetToCandidate(d)
    \/ \E d \in Devices : RemoveRecord(d)
    \/ \E d \in Devices : ForceConfirm(d)
    \/ \E d \in Devices, immediate \in BOOLEAN, force \in BOOLEAN :
            ScheduleProbe(d, immediate, force)
    \/ \E d \in Devices : TimerFire(d)
    \/ \E t \in BagToSet(tasks) : GetStreamUrlResolved(t)
    \/ \E t \in BagToSet(tasks), k \in RandNums :
            CanFail(t.devId, MaxFailures) /\ GetStreamUrlRejected(t, k)
    \/ \E t \in BagToSet(tasks), k \in RandNums :
            \E result \in Outcomes(t, ValidatorResults, MaxFailures) :
                ValidateResolved(t, result, k)
    \/ \E t \in BagToSet(tasks), k \in RandNums :
            CanFail(t.devId, MaxFailures) /\ ValidateRejected(t, k)
    \/ \E t \in BagToSet(tasks) : Finally(t)

Spec == Init /\ [][Next]_vars

(***************************************************************************)
(* SpecFleet: several enumerated devices compete for the probe slots.  The *)
(* registry is loaded from the storage a previous run left behind.         *)
(***************************************************************************)
FleetDevices == 1..FleetSize

\* the registry after the enumeration of devs as cameras
RECURSIVE Enumerated(_)
Enumerated(devs) ==
    IF devs = {} THEN [records |-> <<>>, storage |-> StorageMissing]
    ELSE LET d == CHOOSE x \in devs : TRUE
         IN  upsertCandidate(Enumerated(devs \ {d}),
                             Identity(d, "Camera", "camera", Some("prod")), None)

\* a probe of the fleet ends with 200 OK or 404
FleetResults == {r \in ValidatorResults : IsSome(r.statusCode)}

InitFleet ==
    /\ InitRegistry({Enumerated(FleetDevices).storage})
    /\ InitController(OptionSets(1..MaxSlots))
    /\ NoPlugin
    /\ NoValidation
    /\ now = 0
    /\ NoBackoffCall

\* Device 1 is enumerated again under either category; the last device is deleted.
NextFleet ==
    \/ \E cat \in {"camera", "kg"} :
            UpsertCandidate(Identity(1, "Camera", cat, Some("prod")), None)
    \/ RemoveRecord(FleetSize)
    \/ \E d \in FleetDevices, force \in BOOLEAN : ScheduleProbe(d, TRUE, force)
    \/ \E d \in FleetDevices : TimerFire(d)
    \/ \E t \in BagToSet(tasks) : GetStreamUrlResolved(t)
    \/ \E t \in BagToSet(tasks), k \in RandNums :
            \E result \in Outcomes(t, FleetResults, FleetFailures) :
                ValidateResolved(t, result, k)
    \/ \E t \in BagToSet(tasks), k \in RandNums :
            CanFail(t.devId, FleetFailures) /\ GetStreamUrlRejected(t, k)
    \/ \E t \in BagToSet(tasks) : Finally(t)

SpecFleet == InitFleet /\ [][NextFleet]_vars

(***************************************************************************)
(* SpecRegistry: the registry alone, every mutator called directly, and    *)
(* a new registry constructed over the same storage at any time.           *)
(***************************************************************************)
RegistryDevices == 1..RegistrySize
RegistryIdentities ==
    {Identity(d, "Camera", "camera", Some("prod")) : d \in RegistryDevices}
        \cup {Identity(d, "Renamed", "kg", None) : d \in RegistryDevices}
\* arguments (failure, backoffUntil) of recordFailure
RegistryFailures ==
    {<<FailureInfo(now, Some(404), Some("validation-failed")), Some(now + BackoffBase)>>,
     <<FailureInfo(now, None, None), None>>}

\* a registry method is called
Mutate(reg) ==
    /\ SetRegistry(reg)
    /\ UNCHANGED <<validatorVars, pluginVars, thrown, now, options, controllerVars, calls, backoffVars>>

\* new DiscoveryRegistry(storage) over the storage as it is
Reload ==
    /\ records' = load(storage).records
    /\ thrown' = (thrown \/ load(storage).thrown)
    /\ UNCHANGED <<validatorVars, pluginVars, storage, now, options, controllerVars, calls, backoffVars>>

InitRegistryOnly ==
    /\ InitRegistry(BootStorage)
    /\ InitController(OptionSets({1}))
    /\ NoPlugin
    /\ NoValidation
    /\ now = 0
    /\ NoBackoffCall

NextRegistry ==
    \/ Reload
    \/ \E identity \in RegistryIdentities, online \in OnlineArgs :
            Mutate(upsertCandidate(Reg, identity, online))
    \/ \E d \in RegistryDevices, online \in BOOLEAN : Mutate(updateOnline(Reg, d, online))
    \/ \E d \in RegistryDevices : Mutate(markVerified(Reg, d, now))
    \/ \E d \in RegistryDevices : Mutate(markUnverified(Reg, d))
    \/ \E d \in RegistryDevices : Mutate(recordProbeAttempt(Reg, d, now))
    \/ \E d \in RegistryDevices, args \in RegistryFailures :
            CanFail(d, 1) /\ Mutate(registryRecordFailure(Reg, d, args[1], args[2]))
    \/ \E d \in RegistryDevices : Mutate(resetToCandidate(Reg, d))
    \/ \E d \in RegistryDevices : Mutate(removeRecord(Reg, d))

SpecRegistry == InitRegistryOnly /\ [][NextRegistry]_vars

(***************************************************************************)
(* SpecBackoff: getBackoffMs over a range of arguments, evaluated for the  *)
(* failure counts of a run of consecutive failures.                        *)
(***************************************************************************)
BackoffArgs ==
    [failureCount : 0..MaxFailureCount,
     baseMs : {1, 3, 1000},
     maxMs : {2, 10, 10000},
     multiplier : {None} \cup {Some(m) : m \in 1..MaxMultiplier},
     jitterPct : {None, Some(0), Some(20), Some(100)},
     randNum : 0..RandDen]

Backoff(a) ==
    getBackoffMs(a.failureCount, a.baseMs, a.maxMs, a.multiplier, a.jitterPct, a.randNum)

InitBackoff ==
    /\ InitRegistry({StorageMissing})
    /\ InitController(OptionSets({1}))
    /\ NoPlugin
    /\ NoValidation
    /\ now = 0
    /\ backoffIn \in {Some(a) : a \in BackoffArgs}
    /\ backoffOut = None

\* getBackoffMs is called with the arguments backoffIn
ComputeBackoff ==
    /\ backoffOut = None
    /\ backoffOut' = Some(Backoff(Get(backoffIn)))
    /\ UNCHANGED <<validatorVars, pluginVars, records, storage, thrown, now, options, controllerVars, calls, backoffIn>>

\* one more failure: getBackoffMs is called with the next failure count
NextFailure ==
    /\ IsSome(backoffOut)
    /\ Get(backoffIn).failureCount < MaxFailureCount
    /\ backoffIn' = Some([Get(backoffIn) EXCEPT !.failureCount = @ + 1])
    /\ backoffOut' = Some(Backoff(Get(backoffIn')))
    /\ UNCHANGED <<validatorVars, pluginVars, records, storage, thrown, now, options, controllerVars, calls>>

NextBackoff == ComputeBackoff \/ NextFailure

SpecBackoff == InitBackoff /\ [][NextBackoff]_vars

(***************************************************************************)
(* SpecTimed: one enumerated camera and a clock, with a debounce and the   *)
(* backoff of failed probes.                                               *)
(***************************************************************************)
\* the options of the controller with debounceMs = Debounce
TimedOptions == {[o EXCEPT !.debounceMs = Debounce] : o \in OptionSets(1..MaxSlots)}

InitTimed ==
    /\ InitRegistry({Enumerated({1}).storage})
    /\ InitController(TimedOptions)
    /\ NoPlugin
    /\ NoValidation
    /\ now = 0
    /\ NoBackoffCall

NextTimed ==
    \/ Tick
    \/ ForceConfirm(1)
    \/ \E online \in BOOLEAN : UpdateOnline(1, online)
    \/ \E immediate \in BOOLEAN, force \in BOOLEAN : ScheduleProbe(1, immediate, force)
    \/ TimerFire(1)
    \/ \E t \in BagToSet(tasks) : GetStreamUrlResolved(t)
    \/ \E t \in BagToSet(tasks), k \in RandNums :
            CanFail(t.devId, MaxFailures) /\ GetStreamUrlRejected(t, k)
    \/ \E t \in BagToSet(tasks), k \in RandNums :
            \E result \in Outcomes(t, FleetResults, MaxFailures) :
                ValidateResolved(t, result, k)
    \/ \E t \in BagToSet(tasks) : Finally(t)

SpecTimed == InitTimed /\ [][NextTimed]_vars

(***************************************************************************)
(* plugin.ts: the TuyaPlugin that owns the registry and the controller,    *)
(* exposes devices to the host, and handles the discovery settings and the *)
(* messages of the cloud.                                                  *)
(***************************************************************************)
\* isCameraCategory(category) of discovery/cameraCategories.ts, without extras
isCameraCategory(category) ==
    LET lowered == toLowerCase(Spelling[category])
    IN  \/ category \in DefaultCategories
        \/ includes(lowered, <<"s", "x", "j">>)
        \/ includes(lowered, <<"s", "p">>)
        \/ includes(lowered, <<"c", "a", "m">>)

\* TuyaPlugin.upsertScryptedDevice(devId): the devices map afterwards
upsertScryptedDevice(devs, known, devId) ==
    IF devId \in devs THEN devs
    ELSE IF devId \notin DOMAIN known THEN devs
    ELSE IF ~isCameraCategory(known[devId]) THEN devs
    ELSE devs \cup {devId}

\* TuyaPlugin.removeScryptedDevice(devId): the devices map afterwards
removeScryptedDevice(devs, devId) == devs \ {devId}

\* DiscoveryController.scheduleProbe(devId, {immediate, force}) on the timers
\* tm and the records recs: the timers afterwards
scheduleProbe(tm, recs, devId, immediate, force) ==
    IF /\ devId \in DOMAIN recs
       /\ (force \/ recs[devId].state # Verified)
       /\ recs[devId].online # Some(FALSE)
       /\ isProbeEligible(recs[devId], force)
    THEN MapSet(tm, devId,
                [fireAt |-> now + scheduleDelay(recs[devId], immediate, force),
                 force |-> force])
    ELSE tm

\* scheduleProbe(devId, {immediate: true}) for every devId in devs
RECURSIVE scheduleEach(_, _, _)
scheduleEach(tm, recs, devs) ==
    IF devs = {} THEN tm
    ELSE LET d == CHOOSE x \in devs : TRUE
         IN  scheduleEach(scheduleProbe(tm, recs, d, TRUE, FALSE), recs, devs \ {d})

\* the controller options of the plugin, in model units
PluginMaxConcurrent == 2
PluginOptions ==
    [maxConcurrent |-> PluginMaxConcurrent,
     debounceMs |-> Debounce,
     backoffBaseMs |-> BackoffBase,
     backoffMaxMs |-> BackoffCap,
     cameraCategories |-> {},
     probeAllCategories |-> FALSE]

\* the results of api.fetchDevices(): category and online of each device
Fetches ==
    UNION {[devs -> [category : {"camera", "kg"}, online : BOOLEAN]] : devs \in SUBSET Devices}

\* devices.forEach(device => upsertCandidate({...}, device.online))
RECURSIVE upsertFetched(_, _, _)
upsertFetched(reg, fetched, devs) ==
    IF devs = {} THEN reg
    ELSE LET d == CHOOSE x \in devs : TRUE
         IN  upsertFetched(upsertCandidate(reg,
                                           Identity(d, "Camera", fetched[d].category, Some("prod")),
                                           Some(fetched[d].online)),
                           fetched, devs \ {d})

\* TuyaPlugin.initializeDevices after fetchDevices has returned fetched, on
\* the registry reg: the registry, the timers of the new controller, and the
\* maps tuyaDevices and devices afterwards
initializeDevices(reg, fetched) ==
    LET after == upsertFetched(reg, fetched, DOMAIN fetched)
        online == {d \in DOMAIN after.records : after.records[d].online = Some(TRUE)}
    IN  [records |-> after.records,
         storage |-> after.storage,
         timers |-> scheduleEach(<<>>, after.records, online),
         tuyaDevices |-> [d \in DOMAIN fetched |-> fetched[d].category],
         devices |-> {d \in DOMAIN fetched :
                        /\ after.records[d].state \in {Verified, Unverified}
                        /\ isCameraCategory(fetched[d].category)}]

\* the plugin process starts over the storage as it is: the registry is
\* loaded, the devices are fetched, the controller is constructed
PluginStart(fetched) ==
    LET started == initializeDevices([records |-> load(storage).records, storage |-> storage],
                                     fetched)
    IN  /\ records' = started.records
        /\ storage' = started.storage
        /\ thrown' = (thrown \/ load(storage).thrown)
        /\ timers' = started.timers
        /\ tuyaDevices' = started.tuyaDevices
        /\ devices' = started.devices
        /\ pending' = <<>>
        /\ queue' = <<>>
        /\ inFlight' = 0
        /\ tasks' = EmptyBag
        /\ calls' = <<>>
        /\ UNCHANGED <<validatorVars, now, options, selected, backoffVars>>

\* a settings or message handler of the plugin: it leaves the registry reg,
\* the timers tm, the exposed devices devs, the fetched devices known and the
\* selection sel
Handler(reg, tm, devs, known, sel) ==
    /\ NoMicrotask
    /\ SetRegistry(reg)
    /\ timers' = tm
    /\ devices' = devs
    /\ tuyaDevices' = known
    /\ selected' = sel
    /\ calls' = <<>>
    /\ UNCHANGED <<validatorVars, thrown, now, options, pending, queue, inFlight, tasks, backoffVars>>

\* putSetting("discovery.selected", label of devId): a Candidate or Unverified record
Select(devId) ==
    /\ devId \in DOMAIN records
    /\ records[devId].state \in {Candidate, Unverified}
    /\ Handler(Reg, timers, devices, tuyaDevices, Some(devId))

\* putSetting("discovery.retrySelected")
RetrySelected ==
    /\ IsSome(selected)
    /\ Handler(Reg, scheduleProbe(timers, records, Get(selected), TRUE, TRUE),
               devices, tuyaDevices, selected)

\* putSetting("discovery.forceConfirmSelected")
ForceConfirmSelected ==
    /\ IsSome(selected)
    /\ Handler(markUnverified(Reg, Get(selected)), timers,
               upsertScryptedDevice(devices, tuyaDevices, Get(selected)),
               tuyaDevices, selected)

\* putSetting("discovery.removeSelected")
RemoveSelected ==
    /\ IsSome(selected)
    /\ Get(selected) \in DOMAIN records
    /\ IF records[Get(selected)].state = Candidate
       THEN Handler(removeRecord(Reg, Get(selected)), timers, devices, tuyaDevices, selected)
       ELSE Handler(resetToCandidate(Reg, Get(selected)), timers,
                    removeScryptedDevice(devices, Get(selected)), tuyaDevices, selected)

\* putSetting("discovery.retryAll")
RetryAll ==
    Handler(Reg,
            scheduleEach(timers, records,
                         {d \in DOMAIN records : records[d].state # Verified}),
            devices, tuyaDevices, selected)

\* onMessage: bizCode "online" or "offline" for devId
OnlineMessage(devId, isOnline) ==
    LET reg == updateOnline(Reg, devId, isOnline)
    IN  Handler(reg,
                IF isOnline THEN scheduleProbe(timers, reg.records, devId, FALSE, FALSE)
                ELSE timers,
                devices, tuyaDevices, selected)

\* onMessage: bizCode "delete" for devId
DeleteMessage(devId) ==
    Handler(removeRecord(Reg, devId), timers, removeScryptedDevice(devices, devId),
            MapDelete(tuyaDevices, devId),
            IF selected = Some(devId) THEN None ELSE selected)

\* await this.validator.validate(url) resolves with ok: markVerified, and the
\* plugin's onVerified callback calls upsertScryptedDevice
ProbeVerified(t) ==
    /\ NoMicrotask
    /\ t.pc = "validate"
    /\ tasks' = (tasks (-) OneTask(t)) (+) OneTask([t EXCEPT !.pc = "settled"])
    /\ SetRegistry(markVerified(Reg, t.devId, now))
    /\ calls' = <<Call("onVerified", t.devId)>>
    /\ devices' = upsertScryptedDevice(devices, tuyaDevices, t.devId)
    /\ UNCHANGED <<validatorVars, thrown, now, options, timers, pending, queue, inFlight, backoffVars,
                   tuyaDevices, selected>>

(***************************************************************************)
(* SpecPlugin: the plugin with the devices of the account, its settings    *)
(* handlers, the messages of the cloud and the probes of its controller,   *)
(* within one instant of the clock: a timer that is not yet due stays      *)
(* armed.                                                                  *)
(***************************************************************************)
InitPlugin ==
    \E boot \in BootStorage, fetched \in Fetches :
        LET started == initializeDevices([records |-> load(boot).records, storage |-> boot],
                                         fetched)
        IN  /\ options = PluginOptions
            /\ now = 0
            /\ records = started.records
            /\ storage = started.storage
            /\ thrown = load(boot).thrown
            /\ timers = started.timers
            /\ tuyaDevices = started.tuyaDevices
            /\ devices = started.devices
            /\ selected = None
            /\ NoValidation
            /\ pending = <<>>
            /\ queue = <<>>
            /\ inFlight = 0
            /\ tasks = EmptyBag
            /\ calls = <<>>
            /\ NoBackoffCall

NextPlugin ==
    \/ \E fetched \in Fetches : PluginStart(fetched)
    \/ \E d \in Devices : Select(d)
    \/ RetrySelected
    \/ ForceConfirmSelected
    \/ RemoveSelected
    \/ RetryAll
    \/ \E d \in Devices, isOnline \in BOOLEAN : OnlineMessage(d, isOnline)
    \/ \E d \in Devices : DeleteMessage(d)
    \/ \E d \in Devices : TimerFire(d)
    \/ \E t \in BagToSet(tasks) : GetStreamUrlResolved(t)
    \/ \E t \in BagToSet(tasks), k \in RandNums :
            CanFail(t.devId, MaxFailures) /\ GetStreamUrlRejected(t, k)
    \/ \E t \in BagToSet(tasks) : ProbeVerified(t)
    \/ \E t \in BagToSet(tasks), k \in RandNums :
            \E result \in {r \in FleetResults : ~r.ok} :
                CanFail(t.devId, MaxFailures) /\ ValidateResolved(t, result, k)
    \/ \E t \in BagToSet(tasks) : Finally(t)

SpecPlugin == InitPlugin /\ [][NextPlugin]_vars

(***************************************************************************)
(* SpecAnyOptions: Spec with a controller constructed from any options     *)
(* object the constructor accepts.                                         *)
(***************************************************************************)
\* maxConcurrent: number; the constructor stores options as given
AnySlots == (0 - 1)..MaxSlots

InitAnyOptions ==
    /\ InitRegistry(BootStorage)
    /\ InitController(OptionSets(AnySlots))
    /\ NoPlugin
    /\ NoValidation
    /\ now = 0
    /\ NoBackoffCall

SpecAnyOptions == InitAnyOptions /\ [][Next]_vars

(***************************************************************************)
(* SpecCategories: Spec with a one-slot controller whose options name      *)
(* extra camera categories or ask for every category to be probed.         *)
(***************************************************************************)
CategoryOptions ==
    {[o EXCEPT !.cameraCategories = extras, !.probeAllCategories = all] :
        o \in OptionSets({1}), extras \in {{}, {"kg"}}, all \in BOOLEAN}

InitCategories ==
    /\ InitRegistry(BootStorage)
    /\ InitController(CategoryOptions)
    /\ NoPlugin
    /\ NoValidation
    /\ now = 0
    /\ NoBackoffCall

SpecCategories == InitCategories /\ [][Next]_vars

(***************************************************************************)
(* SpecLive: the enumerated fleet, device 1 retried with force, under the  *)
(* assumption that every endpoint request and every validation completes   *)
(* and that the event loop runs every promise reaction.                    *)
(***************************************************************************)
NextLive ==
    \/ \E d \in FleetDevices : ScheduleProbe(d, TRUE, FALSE)
    \/ ScheduleProbe(1, TRUE, TRUE)      \* "retry selected", again and again
    \/ \E d \in FleetDevices : TimerFire(d)
    \/ \E t \in BagToSet(tasks) : GetStreamUrlResolved(t)
    \/ \E t \in BagToSet(tasks), k \in RandNums :
            \E result \in Outcomes(t, FleetResults, FleetFailures) :
                ValidateResolved(t, result, k)
    \/ \E t \in BagToSet(tasks), k \in RandNums :
            CanFail(t.devId, FleetFailures) /\ GetStreamUrlRejected(t, k)
    \/ \E t \in BagToSet(tasks) : Finally(t)

\* the positions a runProbe invocation of the fleet can be at
TaskKinds == {Task(d, pc) : d \in FleetDevices, pc \in {"getStreamUrl", "validate", "settled"}}

\* the invocations in flight: at most one per slot
TaskBags ==
    {[t \in {s[i] : i \in DOMAIN s} |-> Cardinality({i \in DOMAIN s : s[i] = t})] :
        s \in UNION {[1..n -> TaskKinds] : n \in 0..MaxSlots}}

\* a runProbe invocation leaves position t: the call it awaits completes, or
\* its .finally callback runs
Leaves(t) ==
    /\ tasks' \in TaskBags
    /\ CopiesIn(t, tasks') < CopiesIn(t, tasks)

\* every endpoint request and every validation completes, and the event loop
\* runs the .finally callback of every settled runProbe promise
Fairness == \A t \in TaskKinds : WF_tasks(Leaves(t))

SpecLive == InitFleet /\ [][NextLive]_vars /\ Fairness

(***************************************************************************)
(* SpecValidator: one call of NetRtspValidator.validate and the events of  *)
(* its socket.  A URL and the response text are sequences of pieces:       *)
(* " " stands for a run of white space and each digit is a piece.  A due   *)
(* timer fires before time passes.                                         *)
(***************************************************************************)
Urls ==
    {<<"rtsp", "://", "cam", "/stream">>,
     <<"rtsps", "://", "cam", ":", "8554", "/stream">>,
     <<"rtsp", "://", "cam", ":", "70000", "/stream">>,
     <<"RTSP", "://", "cam", "/stream">>,
     <<"http", "://", "cam", "/stream">>,
     <<"rtsp", ":", "cam">>,
     <<>>}

PortNumber == [p \in {"8554", "70000"} |-> IF p = "8554" THEN 8554 ELSE 70000]

\* the chunks a peer sends
Chunks ==
    {<<"RTSP/1.0", " ", "2", "0", "0", "\r\n">>,
     <<"RTSP/1.0", " ", "4", "0", "1", "\r\n">>,
     <<"rtsp/2.0", " ", "4", "0", "5", "\r\n">>,
     <<"RTSP/1.0", " ", "4", "0", "4", "\r\n">>,
     <<"RTSP/1.0", " ", "0", "0", "0", "\r\n">>,
     <<"HTTP/1.1", " ", "2", "0", "0", "\r\n">>,
     <<"RTSP/1.0", " ", "2">>,
     <<"0", "0", "\r\n">>,
     <<"0", "\r\n">>,
     <<"\r\n">>}

ErrorMessages == {"connect ECONNREFUSED", "read ECONNRESET"}

DigitValue ==
    [c \in {"0", "1", "2", "3", "4", "5", "6", "7", "8", "9"} |->
        CASE c = "0" -> 0 [] c = "1" -> 1 [] c = "2" -> 2 [] c = "3" -> 3 [] c = "4" -> 4
          [] c = "5" -> 5 [] c = "6" -> 6 [] c = "7" -> 7 [] c = "8" -> 8 [] c = "9" -> 9]

\* url.startsWith(prefix)
StartsWith(text, prefix) ==
    /\ Len(text) >= Len(prefix)
    /\ \A i \in DOMAIN prefix : text[i] = prefix[i]

\* isRtspUrl(url)
isRtspUrl(u) == StartsWith(u, <<"rtsp", "://">>) \/ StartsWith(u, <<"rtsps", "://">>)

\* new URL(url) throws: of these URLs, the ones whose port is above 65535
UrlThrows(u) == \E i \in DOMAIN u : u[i] \in DOMAIN PortNumber /\ PortNumber[u[i]] > 65535

\* the places where /RTSP\/\d+\.\d+\s+(\d{3})\s*(.*)/i matches in line
MatchesAt(line) ==
    {i \in DOMAIN line :
        /\ i + 4 <= Len(line)
        /\ line[i] \in {"RTSP/1.0", "RTSP/2.0", "rtsp/1.0", "rtsp/2.0"}
        /\ line[i + 1] = " "
        /\ \A k \in 2..4 : line[i + k] \in DOMAIN DigitValue}

\* parseRtspStatusLine(line).statusCode
parseRtspStatusLine(line) ==
    IF MatchesAt(line) = {}
    THEN None
    ELSE LET i == CHOOSE j \in MatchesAt(line) : \A k \in MatchesAt(line) : j <= k
         IN  Some(100 * DigitValue[line[i + 2]] + 10 * DigitValue[line[i + 3]]
                  + DigitValue[line[i + 4]])

\* buffer.indexOf("\r\n"), 0 for -1
EndIndex(text) ==
    IF \E i \in DOMAIN text : text[i] = "\r\n"
    THEN CHOOSE i \in DOMAIN text : text[i] = "\r\n" /\ \A j \in 1..(i - 1) : text[j] # "\r\n"
    ELSE 0

RtspValidationResult(ok, statusCode, statusLine, error) ==
    [ok |-> ok, statusCode |-> statusCode, statusLine |-> statusLine, error |-> error]

\* the timeout validate uses when its caller gives none
DefaultTimeoutMs == MaxTime

\* onResult without cleanup()
OnResultWithoutCleanup(result) ==
    /\ UNCHANGED <<timer, listeners>>
    /\ delivered' = Append(delivered, result)

\* onResult(result): cleanup() and resolve(result)
OnResult(result) ==
    /\ timer' = None
    /\ listeners' = {}
    /\ delivered' = Append(delivered, result)

\* validator.validate(u)
Validate(u) ==
    /\ url = None
    /\ url' = Some(u)
    /\ IF ~isRtspUrl(u)
       THEN /\ delivered' = Append(delivered,
                                   RtspValidationResult(FALSE, None, None, Some("invalid-scheme")))
            /\ UNCHANGED <<socket, listeners, timer, thrown>>
       ELSE IF UrlThrows(u)
       THEN /\ thrown' = TRUE
            /\ UNCHANGED <<socket, listeners, timer, delivered>>
       ELSE /\ socket' = "connecting"
            /\ timer' = Some(now + DefaultTimeoutMs)
            /\ listeners' = {"error", "data", "connect"}
            /\ UNCHANGED <<delivered, thrown>>
    /\ UNCHANGED <<buffer, records, storage, now, options, controllerVars, calls, backoffVars,
                   pluginVars>>

\* the "connect" event: the OPTIONS request is written
OnConnect ==
    /\ socket = "connecting"
    /\ socket' = "open"
    /\ UNCHANGED <<url, listeners, timer, buffer, delivered, records, storage, thrown, now,
                   options, controllerVars, calls, backoffVars, pluginVars>>

\* a "data" listener that accepts the code 200 only
OnDataAccepts200Only(data) ==
    /\ socket = "open"
    /\ "data" \in listeners
    /\ Len(buffer) + Len(data) <= MaxBuffer
    /\ buffer' = buffer \o data
    /\ LET endIndex == EndIndex(buffer')
           statusLine == SubSeq(buffer', 1, endIndex - 1)
           statusCode == parseRtspStatusLine(statusLine)
       IN  IF endIndex = 0
           THEN UNCHANGED <<socket, listeners, timer, delivered>>
           ELSE IF statusCode = None \/ statusCode = Some(0)
           THEN /\ OnResult(RtspValidationResult(FALSE, None, Some(statusLine),
                                                 Some("invalid-status")))
                /\ socket' = "ended"
           ELSE /\ OnResult(RtspValidationResult(statusCode = Some(200),
                                                 statusCode, Some(statusLine), None))
                /\ socket' = "ended"
    /\ UNCHANGED <<url, records, storage, thrown, now, options, controllerVars, calls,
                   backoffVars, pluginVars>>

\* the "data" listener
OnData(data) ==
    /\ socket = "open"
    /\ "data" \in listeners
    /\ Len(buffer) + Len(data) <= MaxBuffer
    /\ buffer' = buffer \o data
    /\ LET endIndex == EndIndex(buffer')
           statusLine == SubSeq(buffer', 1, endIndex - 1)
           statusCode == parseRtspStatusLine(statusLine)
       IN  IF endIndex = 0
           THEN UNCHANGED <<socket, listeners, timer, delivered>>
           ELSE IF statusCode = None \/ statusCode = Some(0)
           THEN /\ OnResult(RtspValidationResult(FALSE, None, Some(statusLine),
                                                 Some("invalid-status")))
                /\ socket' = "ended"
           ELSE /\ OnResult(RtspValidationResult(statusCode \in {Some(200), Some(401), Some(405)},
                                                 statusCode, Some(statusLine), None))
                /\ socket' = "ended"
    /\ UNCHANGED <<url, records, storage, thrown, now, options, controllerVars, calls,
                   backoffVars, pluginVars>>

\* the setTimeout callback
OnTimeout ==
    /\ timer # None
    /\ now >= timer[1]
    /\ OnResult(RtspValidationResult(FALSE, None, None, Some("timeout")))
    /\ socket' = "closed"
    /\ UNCHANGED <<url, buffer, records, storage, thrown, now, options, controllerVars, calls,
                   backoffVars, pluginVars>>

\* the socket fails and is destroyed: the "error" listener runs if there is one,
\* and without one the error is thrown in the event loop
OnError(message) ==
    /\ socket \in {"connecting", "open", "ended"}
    /\ socket' = "closed"
    /\ IF "error" \in listeners
       THEN /\ OnResult(RtspValidationResult(FALSE, None, None, Some(message)))
            /\ UNCHANGED thrown
       ELSE /\ thrown' = TRUE
            /\ UNCHANGED <<listeners, timer, delivered>>
    /\ UNCHANGED <<url, buffer, records, storage, now, options, controllerVars, calls,
                   backoffVars, pluginVars>>

\* the peer closes the connection
PeerCloses ==
    /\ socket \in {"open", "ended"}
    /\ socket' = "closed"
    /\ UNCHANGED <<url, listeners, timer, buffer, delivered, records, storage, thrown, now,
                   options, controllerVars, calls, backoffVars, pluginVars>>

\* time passes
ValidatorTick ==
    /\ IF timer = None THEN now < MaxTime ELSE now < timer[1]
    /\ now' = now + 1
    /\ UNCHANGED <<validatorVars, records, storage, thrown, options, controllerVars, calls,
                   backoffVars, pluginVars>>

InitValidator ==
    /\ InitRegistry({StorageMissing})
    /\ InitController(OptionSets({1}))
    /\ NoPlugin
    /\ NoValidation
    /\ now = 0
    /\ NoBackoffCall

NextValidator ==
    \/ \E u \in Urls : Validate(u)
    \/ OnConnect
    \/ \E data \in Chunks : OnData(data)
    \/ OnTimeout
    \/ \E message \in ErrorMessages : OnError(message)
    \/ PeerCloses
    \/ ValidatorTick

\* the event loop runs the callback of a due timer, and time passes
SpecValidator ==
    InitValidator /\ [][NextValidator]_vars /\ WF_vars(OnTimeout) /\ WF_vars(ValidatorTick)

(***************************************************************************)
(* Properties                                                              *)
(***************************************************************************)
\* the number of probes of d that await the endpoint provider or the validator
ProbesOf(d) == CopiesIn(Task(d, "getStreamUrl"), tasks) + CopiesIn(Task(d, "validate"), tasks)

\* the step resumes task t with a successful validation
ProbeSucceeds(t) ==
    \E result \in {r \in ValidatorResults : r.ok}, k \in RandNums :
        ValidateResolved(t, result, k)

\* the step resumes task t with a failure: not-ok result, or a rejection
ProbeFails(t) ==
    \/ \E result \in {r \in ValidatorResults : ~r.ok}, k \in RandNums :
            ValidateResolved(t, result, k)
    \/ \E k \in RandNums : GetStreamUrlRejected(t, k)
    \/ \E k \in RandNums : ValidateRejected(t, k)

\* how often fn(devId) occurs in the calls cs
CallCount(cs, fn, devId) ==
    Cardinality({i \in DOMAIN cs : cs[i].fn = fn /\ cs[i].devId = devId})

\* C1: the number of runProbe tasks that drainQueue has started and that have
\* not yet completed never exceeds maxConcurrent, and neither does inFlight.
C1_AtMostMaxConcurrent ==
    /\ BagCardinality(tasks) <= options.maxConcurrent
    /\ inFlight <= options.maxConcurrent

\* every slot holds a probe that awaits its collaborator while a further
\* device waits in the queue
C1_Witness ==
    /\ BagCardinality(tasks) = options.maxConcurrent
    /\ \A t \in BagToSet(tasks) : t.pc \in {"getStreamUrl", "validate"}
    /\ Len(queue) > 0

\* C2: no device has two probes in flight (awaiting the endpoint provider or
\* the validator) at the same time.
C2_OneProbePerDevice == \A d \in Devices : ProbesOf(d) <= 1

\* C3: a successful probe of a Candidate record makes it Verified with
\* failureCount 0, backoffUntil and lastFailure cleared and lastSuccessAt set,
\* and calls onVerified(devId) exactly once; a failed probe never calls
\* onVerified.
C3_SuccessVerifies ==
    [][\A t \in BagToSet(tasks) :
          /\ (/\ ProbeSucceeds(t)
              /\ t.devId \in DOMAIN records
              /\ records[t.devId].state = Candidate)
             => /\ t.devId \in DOMAIN records'
                /\ records'[t.devId].state = Verified
                /\ records'[t.devId].probe.failureCount = 0
                /\ records'[t.devId].probe.backoffUntil = None
                /\ records'[t.devId].lastFailure = None
                /\ records'[t.devId].probe.lastSuccessAt = Some(now)
                /\ CallCount(calls', "onVerified", t.devId) = 1
          /\ ProbeFails(t) => \A i \in DOMAIN calls' : calls'[i].fn # "onVerified"
      ]_vars

\* onVerified has just been called once for a record that is now Verified
\* with a success time and no failures
C3_Witness ==
    \E d \in Devices :
        /\ CallCount(calls, "onVerified", d) = 1
        /\ d \in DOMAIN records
        /\ records[d].state = Verified
        /\ records[d].probe.failureCount = 0
        /\ IsSome(records[d].probe.lastSuccessAt)

\* C4: forceConfirm on a Candidate record sets its state to Unverified, leaves
\* probe and lastFailure as they are and creates no timer, queue entry or
\* probe; a later successful probe of the Unverified record makes it Verified.
C4_ForceConfirm ==
    [][/\ \A d \in Devices :
            (/\ ForceConfirm(d)
             /\ d \in DOMAIN records
             /\ records[d].state = Candidate)
            => /\ records' = [records EXCEPT ![d].state = Unverified]
               /\ records'[d].probe = records[d].probe
               /\ records'[d].lastFailure = records[d].lastFailure
               /\ UNCHANGED <<timers, pending, queue, inFlight, tasks>>
               /\ calls' = <<>>
       /\ \A t \in BagToSet(tasks) :
            (/\ ProbeSucceeds(t)
             /\ t.devId \in DOMAIN records
             /\ records[t.devId].state = Unverified)
            => records'[t.devId].state = Verified
      ]_vars

\* a force-confirmed record that still carries the history of a failed probe
C4_Witness ==
    \E d \in Devices :
        /\ d \in DOMAIN records
        /\ records[d].state = Unverified
        /\ records[d].probe.failureCount > 0
        /\ IsSome(records[d].lastFailure)
        /\ IsSome(records[d].probe.lastProbeAt)

\* the force flag that belongs to device d when its run is started: the flag
\* of its queue entry, or of its timer when the timer callback starts it
OwnForce(d) ==
    IF d \in DOMAIN pending THEN pending[d]
    ELSE d \in DOMAIN timers /\ timers[d].force

\* C5: every run is started with the force flag of its own device, and the
\* endpoint provider is asked for a device only if its own flag is force or
\* its record is not Verified and is category-eligible.
C5_ForcePerDevice ==
    [][\A i \in DOMAIN calls' :
          /\ calls'[i].fn = "runProbe" => calls'[i].force = OwnForce(calls'[i].devId)
          /\ calls'[i].fn = "getStreamUrl"
             => /\ calls'[i].devId \in DOMAIN records
                /\ \/ OwnForce(calls'[i].devId)
                   \/ /\ records[calls'[i].devId].state # Verified
                      /\ isProbeEligible(records[calls'[i].devId], FALSE)
      ]_vars

\* the run of b has just been started without force and skipped, although a
\* forced entry of another device a is queued
C5_Witness ==
    \E a, b \in FleetDevices :
        /\ a # b
        /\ a \in DOMAIN pending
        /\ pending[a]
        /\ CallCount(calls, "runProbe", b) = 1
        /\ \A i \in DOMAIN calls : calls[i].devId = b => ~calls[i].force
        /\ CallCount(calls, "getStreamUrl", b) = 0
        /\ b \in DOMAIN records

\* the step is a call of upsertCandidate or removeRecord
RecordSetCall ==
    \/ \E d \in FleetDevices, cat \in {"camera", "kg"} :
            UpsertCandidate(Identity(d, "Camera", cat, Some("prod")), None)
    \/ \E d \in FleetDevices : RemoveRecord(d)

\* the step settles a run of device d: its runProbe promise resolves, after
\* a probe that succeeded, failed or threw, or after an early return
Settles(d) == CopiesIn(Task(d, "settled"), tasks') > CopiesIn(Task(d, "settled"), tasks)

\* C6: only upsertCandidate and removeRecord change the set of deviceIds that
\* have a record; the completion of a probe whose record has been removed
\* changes no record and raises no error; the completion of a probe of a
\* device that has a record keeps that record and changes no other record.
C6_RecordSet ==
    [][/\ (DOMAIN records' # DOMAIN records) => RecordSetCall
       /\ ~thrown'
       /\ \A d \in FleetDevices :
            Settles(d) =>
                IF d \in DOMAIN records
                THEN /\ d \in DOMAIN records'
                     /\ \A e \in DOMAIN records \ {d} : records'[e] = records[e]
                ELSE records' = records
      ]_vars

\* the probe of a removed device has completed with success while the record
\* of another device is in the registry
C6_Witness ==
    \E d \in FleetDevices :
        /\ d \notin DOMAIN records
        /\ CopiesIn(Task(d, "settled"), tasks) > 0
        /\ CallCount(calls, "onVerified", d) = 1
        /\ DOMAIN records # {}

\* C7: the stored value is in sync with memory: a registry constructed from
\* the storage has the same records, field for field, as the registry in
\* memory.
C7_StorageInSync ==
    /\ load(storage).records = records
    /\ ~load(storage).thrown

\* a stored record with a failure that has no status code and no backoff
\* deadline, beside a second record
C7_Witness ==
    \E d \in RegistryDevices :
        /\ d \in DOMAIN records
        /\ IsSome(records[d].lastFailure)
        /\ records[d].probe.backoffUntil = None
        /\ records[d].state = Unverified
        /\ DOMAIN records = RegistryDevices
        /\ storage.kind = "json"

\* a registry that has never stored anything
FreshRegistry == [records |-> <<>>, storage |-> StorageMissing]

\* C8: over a missing or unparseable storage value the constructor does not
\* throw and the registry is empty; the operations on it do what they do on
\* a fresh registry.
C8_CorruptStorage ==
    [][(storage.kind \in {"missing", "unparseable"})
        => /\ records = <<>>
           /\ ~thrown /\ ~thrown'
           /\ \/ UNCHANGED <<records, storage>>
              \/ \E identity \in RegistryIdentities, online \in OnlineArgs :
                    /\ records' = upsertCandidate(FreshRegistry, identity, online).records
                    /\ storage' = upsertCandidate(FreshRegistry, identity, online).storage
      ]_vars

\* a registry constructed over an unparseable value
C8_Witness ==
    /\ storage = StorageUnparseable
    /\ records = <<>>
    /\ ~thrown

\* the jitter of the evaluation a is zero: jitterRatio 0, or Math.random() = 1/2
ZeroJitter(a) == a.jitterPct = Some(0) \/ 2 * a.randNum = RandDen

\* the multiplier of the evaluation a, in units of 1 / MultiplierDen
MultiplierOf(a) == IF a.multiplier = None THEN 2 * MultiplierDen ELSE a.multiplier[1]

\* min(base * multiplier^(failureCount - 1), max) as the rational num / den
Expected(a) ==
    LET e == a.failureCount - 1
        rawNum == a.baseMs * Pow(MultiplierOf(a), e)
        rawDen == Pow(MultiplierDen, e)
    IN  IF rawNum <= a.maxMs * rawDen
        THEN [num |-> rawNum, den |-> rawDen]
        ELSE [num |-> a.maxMs, den |-> 1]

\* C9 as stated: the delay for failureCount 0 is 0; with zero jitter the delay
\* for failureCount >= 1 is exactly min(base * multiplier^(failureCount - 1),
\* max), does not exceed max, and does not decrease when failureCount grows.
C9_ExactBackoff ==
    /\ [](IsSome(backoffOut) =>
            LET a == Get(backoffIn)
            IN  /\ a.failureCount = 0 => Get(backoffOut) = 0
                /\ (a.failureCount >= 1 /\ ZeroJitter(a))
                   => /\ Get(backoffOut) * Expected(a).den = Expected(a).num
                      /\ Get(backoffOut) <= a.maxMs)
    /\ [][(NextFailure /\ ZeroJitter(Get(backoffIn)))
            => Get(backoffOut') >= Get(backoffOut)]_vars

\* C9 as amended: the delay for failureCount 0 is 0; with zero jitter the
\* delay for failureCount >= 1 is min(base * multiplier^(failureCount - 1), max)
\* rounded to the nearest integer, halves up, hence exactly that minimum when
\* it is an integer; it does not exceed max, and for a multiplier of at least 1
\* it does not decrease when failureCount grows.
C9_RoundedBackoff ==
    /\ [](IsSome(backoffOut) =>
            LET a == Get(backoffIn)
                out == Get(backoffOut)
                capped == Expected(a)
            IN  /\ a.failureCount = 0 => out = 0
                /\ (a.failureCount >= 1 /\ ZeroJitter(a))
                   => /\ 2 * out * capped.den > 2 * capped.num - capped.den
                      /\ 2 * out * capped.den <= 2 * capped.num + capped.den
                      /\ (capped.num % capped.den = 0) => out * capped.den = capped.num
                      /\ out <= a.maxMs)
    /\ [][(NextFailure /\ ZeroJitter(Get(backoffIn)) /\ MultiplierOf(Get(backoffIn)) >= MultiplierDen)
            => Get(backoffOut') >= Get(backoffOut)]_vars

\* base 1000, max 10000, multiplier 3/2, reached from failureCount 4 (3375):
\* at failureCount 5 the minimum 5062.5 is rounded to 5063
C9_Witness ==
    /\ IsSome(backoffOut)
    /\ Get(backoffIn).failureCount = 5
    /\ Get(backoffIn).baseMs = 1000
    /\ Get(backoffIn).maxMs = 10000
    /\ Get(backoffIn).multiplier = Some(3)
    /\ MultiplierDen = 2
    /\ Get(backoffIn).jitterPct = Some(0)
    /\ Get(backoffOut) = 5063

\* jitterRatio of the evaluation a, in percent
JitterPct(a) == IF a.jitterPct = None THEN 20 ELSE a.jitterPct[1]

\* C10 as stated: for failureCount >= 1 the delay lies between
\* capped * (1 - jitterRatio) and capped * (1 + jitterRatio), is not negative,
\* and equals capped * (1 + jitterRatio) when Math.random() = 1.
C10_JitterBoundsExact ==
    (IsSome(backoffOut) /\ Get(backoffIn).failureCount >= 1) =>
        LET a == Get(backoffIn)
            out == Get(backoffOut)
            capped == Expected(a)
        IN  /\ 100 * out * capped.den >= capped.num * (100 - JitterPct(a))
            /\ 100 * out * capped.den <= capped.num * (100 + JitterPct(a))
            /\ out >= 0
            /\ a.randNum = RandDen
               => 100 * out * capped.den = capped.num * (100 + JitterPct(a))

\* C10 as amended: for failureCount >= 1 the delay is within one half of the
\* interval from capped * (1 - jitterRatio) to capped * (1 + jitterRatio), is
\* not negative, and when Math.random() = 1 it is capped * (1 + jitterRatio)
\* rounded to the nearest integer, halves up.
C10_JitterBoundsRounded ==
    (IsSome(backoffOut) /\ Get(backoffIn).failureCount >= 1) =>
        LET a == Get(backoffIn)
            out == Get(backoffOut)
            capped == Expected(a)
            low == capped.num * (100 - JitterPct(a))
            high == capped.num * (100 + JitterPct(a))
            half == 50 * capped.den
        IN  /\ 100 * out * capped.den >= low - half
            /\ 100 * out * capped.den <= high + half
            /\ out >= 0
            /\ a.randNum = RandDen
               => /\ 100 * out * capped.den > high - half
                  /\ 100 * out * capped.den <= high + half

\* base 3, jitterRatio 0.2, Math.random() = 1: 3.6 is rounded to 4
C10_Witness ==
    /\ IsSome(backoffOut)
    /\ Get(backoffIn).failureCount = 1
    /\ Get(backoffIn).baseMs = 3
    /\ Get(backoffIn).maxMs = 10
    /\ Get(backoffIn).multiplier = None
    /\ Get(backoffIn).jitterPct = Some(20)
    /\ Get(backoffIn).randNum = RandDen
    /\ Get(backoffOut) = 4

\* C11: a failed probe of a record that still exists adds exactly 1 to
\* failureCount, sets lastFailure to the failure made at the time of handling,
\* sets backoffUntil to that time plus the backoff delay of the incremented
\* failure count, and leaves the state and every other field as they are.
C11_FailureRecorded ==
    [][\A t \in BagToSet(tasks) :
          (t.devId \in DOMAIN records /\ ProbeFails(t))
          => LET old == records[t.devId]
                 new == records'[t.devId]
             IN  /\ new.probe.failureCount = old.probe.failureCount + 1
                 /\ IsSome(new.lastFailure)
                 /\ Get(new.lastFailure).time = now
                 /\ IsSome(Get(new.lastFailure).message)
                 /\ \E k \in RandNums :
                        new.probe.backoffUntil =
                            Some(now + getBackoffMs(old.probe.failureCount + 1,
                                                    options.backoffBaseMs,
                                                    options.backoffMaxMs, None, None, k))
                 /\ new.state = old.state
                 /\ new.state \in {Candidate, Unverified, Verified}
                 /\ new.identity = old.identity
                 /\ new.online = old.online
                 /\ new.probe.lastProbeAt = old.probe.lastProbeAt
                 /\ new.probe.lastSuccessAt = old.probe.lastSuccessAt
      ]_vars

\* the second failure in a row of an Unverified record, handled at time 1:
\* the backoff of failure count 2 is BackoffCap
C11_Witness ==
    /\ 1 \in DOMAIN records
    /\ records[1].state = Unverified
    /\ records[1].probe.failureCount = 2
    /\ IsSome(records[1].lastFailure)
    /\ Get(records[1].lastFailure).time = 1
    /\ Get(records[1].lastFailure).statusCode = Some(404)
    /\ records[1].probe.backoffUntil = Some(1 + BackoffCap)

\* the step is one the controller takes for device d or for a probe: a
\* schedule, a timer, a dequeue or the continuation of a probe
ControllerStep ==
    \/ \E d \in Devices, immediate \in BOOLEAN, force \in BOOLEAN :
            ScheduleProbe(d, immediate, force)
    \/ \E d \in Devices : TimerFire(d)
    \/ \E t \in BagToSet(tasks) :
            GetStreamUrlResolved(t) \/ ProbeSucceeds(t) \/ ProbeFails(t) \/ Finally(t)

\* C12: a probe failure of a Verified record leaves it Verified and records
\* the failure in failureCount, lastFailure and backoffUntil; no schedule,
\* timer, dequeue or probe outcome takes a record out of Verified.
C12_VerifiedIsSticky ==
    [][\A d \in Devices :
          (d \in DOMAIN records /\ records[d].state = Verified)
          => /\ \A t \in BagToSet(tasks) :
                   (t.devId = d /\ ProbeFails(t))
                   => /\ records'[d].state = Verified
                      /\ records'[d].probe.failureCount = records[d].probe.failureCount + 1
                      /\ IsSome(records'[d].lastFailure)
                      /\ IsSome(records'[d].probe.backoffUntil)
             /\ ControllerStep => (d \in DOMAIN records' /\ records'[d].state = Verified)
      ]_vars

\* a Verified record that carries the failure of a forced re-probe
C12_Witness ==
    \E d \in Devices :
        /\ d \in DOMAIN records
        /\ records[d].state = Verified
        /\ records[d].probe.failureCount > 0
        /\ IsSome(records[d].lastFailure)
        /\ IsSome(records[d].probe.backoffUntil)
        /\ IsSome(records[d].probe.lastSuccessAt)

\* the record of d is Verified before the step
IsVerified(d) == d \in DOMAIN records /\ records[d].state = Verified

\* C13: a scheduleProbe without force creates no timer for a Verified record;
\* a run without force of a record that is Verified at the dequeue is skipped,
\* with no attempt recorded and no endpoint request; an endpoint is requested
\* for a Verified record only by a run that carries force.
C13_VerifiedNotProbed ==
    [][/\ \A d \in Devices, immediate \in BOOLEAN :
            (IsVerified(d) /\ ScheduleProbe(d, immediate, FALSE))
            => UNCHANGED <<timers, pending, queue, inFlight, tasks>>
       /\ \A i \in DOMAIN calls' :
            /\ (calls'[i].fn = "runProbe" /\ ~calls'[i].force /\ IsVerified(calls'[i].devId))
               => /\ calls'[i].devId \in DOMAIN records'
                  /\ records'[calls'[i].devId] = records[calls'[i].devId]
                  /\ CallCount(calls', "getStreamUrl", calls'[i].devId) = 0
            /\ (calls'[i].fn = "getStreamUrl" /\ IsVerified(calls'[i].devId))
               => /\ i > 1
                  /\ calls'[i - 1] = RunProbeCall(calls'[i].devId, TRUE)
      ]_vars

\* a run without force has just been skipped: its record became Verified
\* after the schedule, and no attempt later than the success was recorded
C13_Witness ==
    \E d \in Devices :
        /\ d \in DOMAIN records
        /\ records[d].state = Verified
        /\ calls = <<RunProbeCall(d, FALSE)>>
        /\ CopiesIn(Task(d, "settled"), tasks) = 1

\* C14: scheduleProbe for a record whose online flag is false creates no
\* timer and no queue entry, whatever force and immediate are; for a record
\* whose online flag is true or undefined it creates the timer whenever the
\* other checks pass.
C14_OfflineNotScheduled ==
    [][\A d \in Devices, immediate \in BOOLEAN, force \in BOOLEAN :
          (d \in DOMAIN records /\ ScheduleProbe(d, immediate, force))
          => /\ (records[d].online = Some(FALSE))
                => UNCHANGED <<timers, pending, queue, inFlight, tasks>>
             /\ (/\ records[d].online \in {None, Some(TRUE)}
                 /\ \/ force
                    \/ /\ records[d].state # Verified
                       /\ isProbeEligible(records[d], FALSE))
                => /\ d \in DOMAIN timers'
                   /\ timers'[d].force = force
      ]_vars

\* a record that was probed and failed, is now offline, and has no timer,
\* queue entry or probe
C14_Witness ==
    \E d \in Devices :
        /\ d \in DOMAIN records
        /\ records[d].online = Some(FALSE)
        /\ records[d].probe.failureCount > 0
        /\ timers = <<>>
        /\ pending = <<>>
        /\ queue = <<>>
        /\ tasks = EmptyBag
        /\ calls = <<>>

\* scheduleProbe(d, {force}) passes its checks in the state before the step
Eligible(d, force) ==
    /\ d \in DOMAIN records
    /\ (force \/ records[d].state # Verified)
    /\ records[d].online # Some(FALSE)
    /\ isProbeEligible(records[d], force)

\* the time that is left until the backoff of d expires, 0 when there is none
TimeUntilBackoffExpiry(d) ==
    IF IsSome(records[d].probe.backoffUntil) /\ Get(records[d].probe.backoffUntil) > now
    THEN Get(records[d].probe.backoffUntil) - now
    ELSE 0

\* C15: an eligible scheduleProbe at time now sets the timer of the device to
\* now if immediate; otherwise to now + debounceMs when forced and to now +
\* max(debounceMs, max(0, backoffUntil - now)) when not forced; the device
\* enters the queue no earlier than that.
C15_ScheduleDelay ==
    [][/\ \A d \in {1}, immediate \in BOOLEAN, force \in BOOLEAN :
            (Eligible(d, force) /\ ScheduleProbe(d, immediate, force))
            => /\ d \in DOMAIN timers'
               /\ timers'[d].fireAt - now =
                    (IF immediate THEN 0
                     ELSE IF force THEN options.debounceMs
                     ELSE IF options.debounceMs >= TimeUntilBackoffExpiry(d)
                          THEN options.debounceMs
                          ELSE TimeUntilBackoffExpiry(d))
       /\ \A d \in {1} : TimerFire(d) => now >= timers[d].fireAt
      ]_vars

\* a schedule without force and without immediate, made at time 0 after two
\* failures: the backoff BackoffCap exceeds the debounce and sets the delay
C15_Witness ==
    /\ now = 0
    /\ 1 \in DOMAIN records
    /\ records[1].probe.backoffUntil = Some(BackoffCap)
    /\ BackoffCap > options.debounceMs
    /\ 1 \in DOMAIN timers
    /\ timers[1] = [fireAt |-> BackoffCap, force |-> FALSE]

\* C16 as stated: when the record of a device has backoffUntil = T, a later
\* scheduleProbe without force, immediate or not, lets the device enter the
\* queue, and so its probe start, no earlier than T.
C16_EveryScheduleDeferred ==
    [][/\ \A d \in {1}, immediate \in BOOLEAN :
            (/\ Eligible(d, FALSE)
             /\ IsSome(records[d].probe.backoffUntil)
             /\ ScheduleProbe(d, immediate, FALSE))
            => timers'[d].fireAt >= Get(records[d].probe.backoffUntil)
       /\ \A d \in {1} : TimerFire(d) => now >= timers[d].fireAt
      ]_vars

\* C16 as amended: when the record of a device has backoffUntil = T, a later
\* scheduleProbe without force and without immediate lets the device enter
\* the queue no earlier than T and no earlier than debounceMs after the call;
\* a call with immediate, like the calls of the retry-all sweep and of the
\* start-up scheduling, is not deferred: its timer is due at once.
C16_NonImmediateDeferred ==
    [][/\ \A d \in {1} :
            (/\ Eligible(d, FALSE)
             /\ IsSome(records[d].probe.backoffUntil))
            => /\ ScheduleProbe(d, FALSE, FALSE)
                  => /\ timers'[d].fireAt >= Get(records[d].probe.backoffUntil)
                     /\ timers'[d].fireAt >= now + options.debounceMs
               /\ ScheduleProbe(d, TRUE, FALSE) => timers'[d].fireAt = now
       /\ \A d \in {1} : TimerFire(d) => now >= timers[d].fireAt
      ]_vars

\* a schedule without force and without immediate made at time 1, right after
\* the second failure: the timer is due at backoffUntil, later than the debounce
C16_Witness ==
    /\ now = 1
    /\ 1 \in DOMAIN records
    /\ IsSome(records[1].lastFailure)
    /\ Get(records[1].lastFailure).time = 1
    /\ records[1].probe.backoffUntil = Some(1 + BackoffCap)
    /\ 1 \in DOMAIN timers
    /\ timers[1] = [fireAt |-> 1 + BackoffCap, force |-> FALSE]
    /\ 1 + BackoffCap > now + options.debounceMs

QueueCount(q, d) == Cardinality({i \in DOMAIN q : q[i] = d})

\* C18: the queue never contains a deviceId twice, and never contains a
\* deviceId whose probe is in flight.
C18_NoRequeue ==
    \A d \in Devices :
        /\ QueueCount(queue, d) <= 1
        /\ QueueCount(queue, d) = 1 => ProbesOf(d) = 0

\* C19: when the timer of a forced schedule fires while the device is queued
\* or in flight, no queue entry and no run is added and the pending flag of
\* the device is set to force; the pending flag of a queued device never
\* goes back from force to no force.
C19_ForceUpgrade ==
    [][\A d \in Devices :
          /\ (/\ TimerFire(d)
              /\ timers[d].force
              /\ (d \in DOMAIN pending \/ ProbesOf(d) > 0))
             => /\ queue' = queue
                /\ tasks' = tasks
                /\ d \in DOMAIN pending'
                /\ pending'[d]
          /\ (d \in DOMAIN pending /\ pending[d] /\ d \in DOMAIN pending')
             => pending'[d]
      ]_vars

\* the deviceIds of the runs started in the calls cs, in the order of their start
StartedIn(cs) ==
    LET runs == SelectSeq(cs, LAMBDA call : call.fn = "runProbe")
    IN  [i \in 1..Len(runs) |-> runs[i].devId]

\* C20: runs start in the order in which their devices entered the queue: in
\* every step the runs that start are the head of the queue, in queue order,
\* a device that enters the queue enters at its tail, and the devices that
\* stay queued keep their order.
C20_FirstQueuedFirstRun ==
    [][\/ StartedIn(calls') \o queue' = queue
       \/ \E d \in FleetDevices : StartedIn(calls') \o queue' = Append(queue, d)
      ]_vars

\* the run of device a has just started from the head of the queue while
\* device b, queued after a, still waits
C20_Witness ==
    \E a, b \in FleetDevices :
        /\ a # b
        /\ StartedIn(calls) = <<a>>
        /\ QueueCount(queue, a) = 0
        /\ Len(queue) > 0
        /\ Head(queue) = b

\* the step is a call of a registry mutator other than upsertCandidate with
\* the deviceId d
MutatorCall(d) ==
    \/ \E online \in BOOLEAN : Mutate(updateOnline(Reg, d, online))
    \/ Mutate(markVerified(Reg, d, now))
    \/ Mutate(markUnverified(Reg, d))
    \/ Mutate(recordProbeAttempt(Reg, d, now))
    \/ \E args \in RegistryFailures : Mutate(registryRecordFailure(Reg, d, args[1], args[2]))
    \/ Mutate(resetToCandidate(Reg, d))
    \/ Mutate(removeRecord(Reg, d))

\* C21: updateOnline, markVerified, markUnverified, recordProbeAttempt,
\* recordFailure, resetToCandidate and removeRecord called with a deviceId
\* that has no record raise no error, create no record and leave every
\* record and the stored value as they are.
C21_UnknownIdIsNoOp ==
    [][\A d \in RegistryDevices :
          (d \notin DOMAIN records /\ MutatorCall(d))
          => /\ records' = records
             /\ storage' = storage
             /\ ~thrown'
      ]_vars

\* a registry that holds a record with a failure for one device and has
\* stored it, and no record for another device
C21_Witness ==
    \E d, e \in RegistryDevices :
        /\ d \notin DOMAIN records
        /\ e \in DOMAIN records
        /\ records[e].state = Verified
        /\ IsSome(records[e].lastFailure)
        /\ storage = persist(records)

\* C22: every record is stored under its own deviceId; upsertCandidate called
\* on the registry as it is, for an unknown deviceId, creates a Candidate
\* record with failureCount 0, no other probe field and no failure; for a
\* known deviceId it replaces the identity, and online when online is given,
\* and keeps state, probe and lastFailure; it touches no other record, and
\* the same call made again changes nothing.
C22_Upsert ==
    /\ \A d \in DOMAIN records : records[d].devId = d
    /\ \A identity \in RegistryIdentities, online \in OnlineArgs :
            LET d == identity.devId
                after == upsertCandidate(Reg, identity, online)
                new == after.records[d]
            IN  /\ DOMAIN after.records = DOMAIN records \cup {d}
                /\ \A e \in DOMAIN records \ {d} : after.records[e] = records[e]
                /\ new.devId = d
                /\ new.identity = identity
                /\ d \notin DOMAIN records
                   => /\ new.state = Candidate
                      /\ new.probe = [lastProbeAt |-> None, lastSuccessAt |-> None,
                                      failureCount |-> 0, backoffUntil |-> None]
                      /\ new.lastFailure = None
                      /\ new.online = online
                /\ d \in DOMAIN records
                   => /\ new.state = records[d].state
                      /\ new.probe = records[d].probe
                      /\ new.lastFailure = records[d].lastFailure
                      /\ new.online = (IF IsSome(online) THEN online ELSE records[d].online)
                /\ upsertCandidate(after, identity, online) = after

\* a record that was enumerated again under a new name keeps its Verified
\* state, its probe history, its failure and its offline flag, beside the
\* record of another device
C22_Witness ==
    \E d \in RegistryDevices :
        /\ d \in DOMAIN records
        /\ records[d].identity.name = "Renamed"
        /\ records[d].state = Verified
        /\ IsSome(records[d].probe.lastSuccessAt)
        /\ IsSome(records[d].lastFailure)
        /\ records[d].online = Some(FALSE)
        /\ DOMAIN records = RegistryDevices

\* C23: when the endpoint provider rejects, the failure is recorded on the
\* record as a failed validation is: failureCount + 1, lastFailure made at
\* that time, backoffUntil for the incremented count, state kept; the
\* validator and onVerified are not called, no exception escapes, and the
\* run settles so that its slot is released.
C23_ProviderFailure ==
    [][\A t \in BagToSet(tasks), k \in RandNums :
          (t.devId \in DOMAIN records /\ GetStreamUrlRejected(t, k))
          => LET d == t.devId
                 failed == recordFailure(Reg, d,
                                         createFailure(Some(404), Some("validation-failed")), k)
             IN  /\ d \in DOMAIN records'
                 /\ records'[d].probe.failureCount = records[d].probe.failureCount + 1
                 /\ IsSome(records'[d].lastFailure)
                 /\ Get(records'[d].lastFailure).time = now
                 /\ records'[d].probe.backoffUntil =
                        Some(now + getBackoffMs(records[d].probe.failureCount + 1,
                                                options.backoffBaseMs, options.backoffMaxMs,
                                                None, None, k))
                 /\ records'[d].probe = failed.records[d].probe
                 /\ records'[d].state = records[d].state
                 /\ storage' = persist(records')
                 /\ calls' = <<>>
                 /\ ~thrown'
                 /\ CopiesIn(Task(d, "settled"), tasks') = CopiesIn(Task(d, "settled"), tasks) + 1
                 /\ UNCHANGED <<timers, pending, queue, inFlight>>
      ]_vars

\* the endpoint provider has rejected at time 1: the record carries a failure
\* without status code, its first, and a backoff deadline after that time
C23_Witness ==
    /\ now = 1
    /\ 1 \in DOMAIN records
    /\ IsSome(records[1].lastFailure)
    /\ Get(records[1].lastFailure) = FailureInfo(1, None, Some("Not authenticated with Tuya."))
    /\ records[1].probe.failureCount = 1
    /\ records[1].probe.lastProbeAt = Some(0)
    /\ records[1].probe.backoffUntil = Some(1 + BackoffBase)
    /\ CopiesIn(Task(1, "settled"), tasks) = 1
    /\ calls = <<>>

\* C24: no controller exists in which a device waits in the queue while no
\* probe holds a slot: a controller whose maxConcurrent is zero or negative
\* is never constructed.
C24_NoStarvedQueue == Len(queue) > 0 => (inFlight > 0 /\ options.maxConcurrent >= 1)

\* C25: a device is exposed to the host only if its record exists and is
\* Verified or Unverified.
C25_ExposedOnlyIfConfirmed ==
    \A d \in devices :
        /\ d \in DOMAIN records
        /\ records[d].state \in {Verified, Unverified}

\* C26: every change of a record's state is Candidate -> Verified,
\* Unverified -> Verified, Candidate -> Unverified, Verified -> Candidate or
\* Unverified -> Candidate; in particular no step turns a Verified record
\* into an Unverified one; a record that appears starts as Candidate.
C26_StateMachine ==
    [][\A d \in Devices :
          /\ (d \in DOMAIN records /\ d \in DOMAIN records')
             => \/ records'[d].state = records[d].state
                \/ records[d].state \in {Candidate, Unverified} /\ records'[d].state = Verified
                \/ records[d].state = Candidate /\ records'[d].state = Unverified
                \/ records[d].state \in {Verified, Unverified} /\ records'[d].state = Candidate
          /\ (d \notin DOMAIN records /\ d \in DOMAIN records')
             => records'[d].state = Candidate
      ]_vars

\* the run of d with the flag force finds nothing to do at the dequeue
SkippedAtDequeue(d, force) ==
    \/ d \notin DOMAIN records
    \/ (~force /\ records[d].state = Verified)
    \/ ~isProbeEligible(records[d], force)

\* C27: a run that is started when its record does not exist, or is Verified
\* while the run is not forced, or is not category-eligible, records no
\* attempt, changes no record, calls neither the endpoint provider nor the
\* validator, and settles at once; the completion of a run releases its slot.
C27_RecheckAtDequeue ==
    [][/\ \A i \in DOMAIN calls' :
            (calls'[i].fn = "runProbe" /\ SkippedAtDequeue(calls'[i].devId, calls'[i].force))
            => LET d == calls'[i].devId
               IN  /\ d \in DOMAIN records => (d \in DOMAIN records' /\ records'[d] = records[d])
                   /\ d \notin DOMAIN records => d \notin DOMAIN records'
                   /\ CallCount(calls', "getStreamUrl", d) = 0
                   /\ CallCount(calls', "validate", d) = 0
                   /\ CopiesIn(Task(d, "getStreamUrl"), tasks') + CopiesIn(Task(d, "validate"), tasks')
                        = ProbesOf(d)
                   /\ CopiesIn(Task(d, "settled"), tasks') > 0
       /\ (/\ calls' # <<>>
           /\ \A i \in DOMAIN calls' :
                calls'[i].fn = "runProbe" /\ SkippedAtDequeue(calls'[i].devId, calls'[i].force))
          => (records' = records /\ storage' = storage)
       /\ \A t \in BagToSet(tasks) :
            Finally(t) => inFlight' = inFlight - 1 + Len(StartedIn(calls'))
      ]_vars

\* the run of a device whose record was removed while it waited has just
\* been skipped
C27_Witness ==
    \E d \in Devices :
        /\ d \notin DOMAIN records
        /\ calls = <<RunProbeCall(d, FALSE)>>
        /\ CopiesIn(Task(d, "settled"), tasks) = 1
        /\ inFlight = 1

\* C28: the failure of a probe creates no timer and no queue entry and starts
\* no run; the completion of a run starts only devices that were queued
\* before; a timer is created or changed only by a scheduleProbe call for its
\* device, and a device enters the queue only from its own timer.
C28_NoAutomaticRetry ==
    [][/\ \A t \in BagToSet(tasks) :
            /\ ProbeFails(t)
               => (UNCHANGED <<timers, pending, queue, inFlight>> /\ calls' = <<>>)
            /\ Finally(t)
               => /\ timers' = timers
                  /\ StartedIn(calls') \o queue' = queue
                  /\ DOMAIN pending' \subseteq DOMAIN pending
       /\ \A d \in {1} :
            /\ (d \in DOMAIN timers' /\ (d \notin DOMAIN timers \/ timers'[d] # timers[d]))
               => \E immediate \in BOOLEAN, force \in BOOLEAN : ScheduleProbe(d, immediate, force)
            /\ QueueCount(queue', d) > QueueCount(queue, d) => TimerFire(d)
            /\ (CallCount(calls', "runProbe", d) > 0 /\ QueueCount(queue, d) = 0)
               => TimerFire(d)
      ]_vars

\* the record has failed once, its backoff has expired, it is not offline,
\* and the controller holds no timer, no queue entry and no run for it
C28_Witness ==
    /\ 1 \in DOMAIN records
    /\ records[1].probe.failureCount = 1
    /\ IsSome(records[1].lastFailure)
    /\ IsSome(records[1].probe.backoffUntil)
    /\ now > Get(records[1].probe.backoffUntil)
    /\ records[1].online # Some(FALSE)
    /\ records[1].state = Candidate
    /\ timers = <<>>
    /\ pending = <<>>
    /\ queue = <<>>
    /\ inFlight = 0
    /\ tasks = EmptyBag

\* C29: for every record that has both backoffUntil and lastFailure,
\* backoffUntil is not earlier than the time of lastFailure.
C29_BackoffAfterFailure ==
    \A d \in DOMAIN records :
        (IsSome(records[d].probe.backoffUntil) /\ IsSome(records[d].lastFailure))
        => Get(records[d].probe.backoffUntil) >= Get(records[d].lastFailure).time

\* a first failure recorded at the last instant of the clock, with a backoff
\* deadline after it
C29_Witness ==
    /\ 1 \in DOMAIN records
    /\ now = MaxTime
    /\ records[1].probe.failureCount = 1
    /\ IsSome(records[1].lastFailure)
    /\ Get(records[1].lastFailure).time = MaxTime
    /\ records[1].probe.backoffUntil = Some(MaxTime + BackoffBase)
    /\ records[1].state = Candidate

\* C30: with maxConcurrent >= 1, when every endpoint request and every
\* validation completes: no device is queued while a slot is free; every
\* device that is in the queue leaves it, which starts its run; and the queue
\* becomes empty again and again unless devices keep entering it.
C30_QueueDrains ==
    /\ [](Len(queue) > 0 => inFlight = options.maxConcurrent)
    /\ \A d \in FleetDevices : (QueueCount(queue, d) > 0) ~> (QueueCount(queue, d) = 0)
    /\ ([]<>(queue = <<>>) \/ []<><<Len(queue') > Len(queue)>>_vars)

\* every slot is taken and both devices of the fleet wait in the queue
C30_Witness ==
    /\ inFlight = options.maxConcurrent
    /\ \A d \in FleetDevices : QueueCount(queue, d) = 1


\* validate has returned without opening a connection
Rejected == thrown /\ socket = "none"

\* the first line of the response, if the whole of it has arrived
FirstLine == SubSeq(buffer, 1, EndIndex(buffer) - 1)

\* C31: validate classifies every input: a URL of another scheme gives
\* "invalid-scheme" without a connection; otherwise a call ends in a result,
\* which is ok exactly for a first line that parses with code 200, 401 or 405,
\* carries any other parsed code as statusCode, is "invalid-status" for an
\* unparseable first line, "timeout" when no first line came in time, and the
\* transport error's message otherwise.
C31_Classification ==
    url # None =>
        /\ ~Rejected
        /\ ~isRtspUrl(url[1]) =>
                /\ socket = "none" /\ timer = None
                /\ delivered = <<RtspValidationResult(FALSE, None, None, Some("invalid-scheme"))>>
        /\ isRtspUrl(url[1]) =>
                \A i \in DOMAIN delivered :
                    LET r == delivered[i]
                        code == parseRtspStatusLine(FirstLine)
                    IN  CASE r.error \in {Some(m) : m \in ErrorMessages} ->
                                ~r.ok /\ r.statusCode = None
                          [] r.error = Some("timeout") ->
                                ~r.ok /\ r.statusCode = None /\ EndIndex(buffer) = 0
                          [] OTHER ->
                                /\ EndIndex(buffer) > 0
                                /\ IF code = None
                                   THEN ~r.ok /\ r.error = Some("invalid-status")
                                   ELSE /\ r.error = None
                                        /\ r.statusCode = code
                                        /\ r.ok <=> code \in {Some(200), Some(401), Some(405)}

\* C31 (amended): as C31 for every URL that new URL() accepts, a parsed code
\* of 000 counting as unparseable; an rtsp:// or rtsps:// URL that new URL()
\* does not accept makes validate reject without opening a connection.
C31_ClassificationAmended ==
    /\ parseRtspStatusLine(<<"RTSP/2.0", " ", "4", "0", "1", " ", "Unauthorized">>) = Some(401)
    /\ parseRtspStatusLine(<<"HTTP/1.1", " ", "2", "0", "0", " ", "OK">>) = None
    /\ url # None =>
        /\ Rejected <=> (isRtspUrl(url[1]) /\ UrlThrows(url[1]))
        /\ Rejected => delivered = <<>>
        /\ ~isRtspUrl(url[1]) =>
                /\ socket = "none" /\ timer = None
                /\ delivered = <<RtspValidationResult(FALSE, None, None, Some("invalid-scheme"))>>
        /\ isRtspUrl(url[1]) =>
                \A i \in DOMAIN delivered :
                    LET r == delivered[i]
                        code == parseRtspStatusLine(FirstLine)
                    IN  CASE r.error \in {Some(m) : m \in ErrorMessages} ->
                                ~r.ok /\ r.statusCode = None
                          [] r.error = Some("timeout") ->
                                ~r.ok /\ r.statusCode = None /\ EndIndex(buffer) = 0
                          [] OTHER ->
                                /\ EndIndex(buffer) > 0
                                /\ IF code \in {None, Some(0)}
                                   THEN ~r.ok /\ r.error = Some("invalid-status")
                                   ELSE /\ r.error = None
                                        /\ r.statusCode = code
                                        /\ r.ok <=> code \in {Some(200), Some(401), Some(405)}

\* a response with code 405 has been accepted and the socket ended
C31_Witness ==
    /\ delivered # <<>>
    /\ delivered[1].ok
    /\ delivered[1].statusCode = Some(405)
    /\ socket = "ended"

\* validate has opened a connection
Opened == socket # "none"

CameraLikely(d) ==
    \/ records[d].identity.category \in options.cameraCategories
    \/ isCameraCategory(records[d].identity.category)

\* the category filter does not apply to a schedule or a run of record d
Bypasses(d, force) ==
    /\ d \in DOMAIN records
    /\ \/ force
       \/ records[d].state = Unverified
       \/ (options.probeAllCategories /\ records[d].state = Candidate)

\* C33: an endpoint is requested without force only for a record that is
\* Unverified or camera-likely, or when probeAllCategories is set; a forced
\* schedule, an Unverified record or probeAllCategories passes the filter both
\* in scheduleProbe (the timer is armed unless the device is offline) and in
\* runProbe (the dequeued run requests the endpoint).
C33_CategoryFilter ==
    [][/\ \A i \in DOMAIN calls' :
            /\ calls'[i].fn = "getStreamUrl" =>
                    /\ i > 1
                    /\ calls'[i - 1].fn = "runProbe"
                    /\ calls'[i - 1].devId = calls'[i].devId
                    /\ \/ calls'[i - 1].force
                       \/ options.probeAllCategories
                       \/ records[calls'[i].devId].state = Unverified
                       \/ CameraLikely(calls'[i].devId)
            /\ (calls'[i].fn = "runProbe" /\ Bypasses(calls'[i].devId, calls'[i].force)) =>
                    /\ i < Len(calls')
                    /\ calls'[i + 1] = Call("getStreamUrl", calls'[i].devId)
       /\ \A d \in Devices, immediate \in BOOLEAN, force \in BOOLEAN :
            (/\ Bypasses(d, force)
             /\ records[d].online # Some(FALSE)
             /\ ScheduleProbe(d, immediate, force))
            => (d \in DOMAIN timers' /\ timers'[d].force = force)
      ]_vars

\* an Unverified record of a category that is not camera-likely is being
\* probed without force and without probeAllCategories
C33_Witness ==
    /\ ~options.probeAllCategories
    /\ \E d \in DOMAIN records :
            /\ records[d].state = Unverified
            /\ ~CameraLikely(d)
            /\ \E i \in DOMAIN calls :
                    /\ i > 1
                    /\ calls[i] = Call("getStreamUrl", d)
                    /\ calls[i - 1] = RunProbeCall(d, FALSE)

\* recs is records with nothing changed but the field named field of record d,
\* a field of probe when inProbe, which holds value
OnlyFieldSet(recs, d, inProbe, field, value) ==
    /\ DOMAIN recs = DOMAIN records
    /\ \A e \in DOMAIN records \ {d} : recs[e] = records[e]
    /\ DOMAIN recs[d] = DOMAIN records[d]
    /\ DOMAIN recs[d].probe = DOMAIN records[d].probe
    /\ \A f \in DOMAIN records[d] \ {"probe"} :
            recs[d][f] = IF ~inProbe /\ f = field THEN value ELSE records[d][f]
    /\ \A f \in DOMAIN records[d].probe :
            recs[d].probe[f] = IF inProbe /\ f = field THEN value ELSE records[d].probe[f]

\* C34: on a known deviceId, updateOnline sets online, markUnverified sets
\* state and recordProbeAttempt sets probe.lastProbeAt; each leaves every other
\* field of the record and every other record as it was.
C34_OneFieldChanged ==
    \A d \in DOMAIN records :
        /\ \A online \in BOOLEAN :
                OnlyFieldSet(updateOnline(Reg, d, online).records, d, FALSE, "online", Some(online))
        /\ OnlyFieldSet(markUnverified(Reg, d).records, d, FALSE, "state", Unverified)
        /\ \A at \in 0..MaxTime :
                OnlyFieldSet(recordProbeAttempt(Reg, d, at).records, d, TRUE, "lastProbeAt", Some(at))

\* two records, one of them offline, Unverified, probed and with a recorded failure
C34_Witness ==
    \E d, e \in DOMAIN records :
        /\ d # e
        /\ records[d].online = Some(FALSE)
        /\ records[d].state = Unverified
        /\ records[d].probe.lastProbeAt # None
        /\ records[d].probe.backoffUntil # None
        /\ records[d].lastFailure # None

\* C35: the force-confirm action on a selected device that has a record and
\* is not offline leaves a forced timer for it that is due at once, so that
\* its verification probe starts without another call.
C35_ForceConfirmSchedules ==
    [][(/\ ForceConfirmSelected
        /\ Get(selected) \in DOMAIN records
        /\ records[Get(selected)].online # Some(FALSE))
       => /\ Get(selected) \in DOMAIN timers'
          /\ timers'[Get(selected)] = [fireAt |-> now, force |-> TRUE]
      ]_vars

\* C36: the remove/unconfirm action deletes the record of the selected device
\* if the device has never been verified; otherwise it makes the record a
\* Candidate, leaves the rest of the record as it is and removes the exposed
\* device.
C36_RemoveOrUnconfirm ==
    [][(RemoveSelected /\ Get(selected) \in DOMAIN records)
       => IF records[Get(selected)].probe.lastSuccessAt = None
          THEN Get(selected) \notin DOMAIN records'
          ELSE /\ Get(selected) \in DOMAIN records'
               /\ records'[Get(selected)] = [records[Get(selected)] EXCEPT !.state = Candidate]
               /\ Get(selected) \notin devices'
      ]_vars

\* C37: when onVerified(d) is called, the record of d exists and is Verified.
C37_OnVerifiedHasRecord ==
    \A i \in DOMAIN calls :
        calls[i].fn = "onVerified" =>
            /\ calls[i].devId \in DOMAIN records
            /\ records[calls[i].devId].state = Verified

\* C38: a probe is started (attempt recorded, endpoint requested) only for a
\* record whose online flag is not false at that moment.
C38_OfflineNotProbed ==
    \A i \in DOMAIN calls :
        calls[i].fn = "getStreamUrl" =>
            /\ calls[i].devId \in DOMAIN records
            /\ records[calls[i].devId].online # Some(FALSE)

\* C39: inFlight is the number of runProbe promises whose .finally callback
\* has not run yet, whatever await they are suspended at or however they
\* settled, and it is never negative; with no such promise it is 0.
C39_InFlightCountsTasks ==
    /\ inFlight = BagCardinality(tasks)
    /\ inFlight >= 0
    /\ inFlight <= options.maxConcurrent
    /\ tasks = EmptyBag => inFlight = 0

\* two slots are taken by a run that has settled and a run that is suspended
\* at an await
C39_Witness ==
    /\ inFlight = 2
    /\ \E t, u \in BagToSet(tasks) : t.pc = "settled" /\ u.pc # "settled"

\* the failure fields of record d in recs are those of record d in records
SameFailureHistory(recs, d) ==
    /\ d \in DOMAIN recs
    /\ recs[d].probe.failureCount = records[d].probe.failureCount
    /\ recs[d].probe.backoffUntil = records[d].probe.backoffUntil
    /\ recs[d].lastFailure = records[d].lastFailure

\* C40: in a registry that started empty, every record has failureCount >= 0,
\* a lastFailure exactly when failureCount >= 1 and a backoffUntil only when
\* failureCount >= 1; upsertCandidate, updateOnline, markUnverified and
\* recordProbeAttempt applied to it leave the three fields as they are.
C40_FailureHistoryConsistent ==
    \A d \in DOMAIN records :
        /\ records[d].probe.failureCount >= 0
        /\ (records[d].lastFailure # None) <=> (records[d].probe.failureCount >= 1)
        /\ (records[d].probe.backoffUntil # None) => (records[d].probe.failureCount >= 1)
        /\ \A identity \in {i \in Identities : i.devId = d}, online \in OnlineArgs :
                SameFailureHistory(upsertCandidate(Reg, identity, online).records, d)
        /\ \A online \in BOOLEAN : SameFailureHistory(updateOnline(Reg, d, online).records, d)
        /\ SameFailureHistory(markUnverified(Reg, d).records, d)
        /\ SameFailureHistory(recordProbeAttempt(Reg, d, now).records, d)

\* a record that failed a probe after a success: the three fields were
\* cleared together and are set together again
C40_Witness ==
    \E d \in DOMAIN records :
        /\ records[d].probe.lastSuccessAt # None
        /\ records[d].probe.failureCount >= 1
        /\ records[d].lastFailure # None
        /\ records[d].probe.backoffUntil # None

====
